---- MODULE Spec2Model ----
(***************************************************************************)
(* State-machine model of video.js' Component base class                   *)
(* (src/src/js/component.js): child tree, delegated events with observed   *)
(* listeners, ready lifecycle, component-scoped timers and disposal.       *)
(*                                                                         *)
(* Every operation of the class is one action.  An operation is computed   *)
(* by operators that thread a state record `s` through the statements of   *)
(* the method, in source order; a JavaScript exception is the field        *)
(* s.thrown, which makes every later statement of the operation a no-op    *)
(* (nothing in component.js catches).  Each component owns at most one     *)
(* element, so an element is named by the component that created it.       *)
(***************************************************************************)
EXTENDS Integers, Sequences, FiniteSets, TLC

\* ---------------------------------------------------------------- bounds
NComp == 3          \* components that can be constructed
MaxTimers == 3      \* window timers that can be created
MaxKids == 2        \* length of a children_ list
MaxRegs == 2        \* callbacks passed to ready()
MaxFire == 2        \* recorded invocations of one interval callback

Comp == 1..NComp
NoComp == 0
Names == {"X"}
UserTypes == {"a"}
EvTypes == UserTypes \cup {"dispose", "ready"}
TouchTypes == {"touchstart", "touchmove", "touchleave", "touchcancel", "touchend"}
ButtonTypes == {"click", "focus", "blur"}
AllTypes == EvTypes \cup TouchTypes \cup {"tap"} \cup ButtonTypes
Fns == {"h1"}
NoType == ""
NoGuid == ""

VARIABLES
  made,             \* components whose constructor has returned
  el_,              \* this.el_: "undefined", "node" or "null"
  childrenNull,     \* TRUE when children_/childIndex_/childNameIndex_ are null
  children_,        \* this.children_
  childIndex_,      \* this.childIndex_   (id -> component, NoComp for none)
  childNameIndex_,  \* this.childNameIndex_ (name -> component)
  name_,            \* this.name_
  options_,         \* this.options_: the name and the declared children
  parentNode,       \* el_.parentNode, by owning component
  handlers,         \* element data: handlers[c][type], a list of listeners
  isReady_,         \* this.isReady_
  readyQueue_,      \* this.readyQueue_ (registration numbers)
  regs,             \* the callbacks ever passed to ready(), with run counts
  timers,           \* window timers, indexed by timer id
  tap,              \* the variables of the closures emitTapEvents() creates
  touch,            \* the touch screen: clock, contacts, the event being dispatched
  player_,          \* this.player_ (NoComp for undefined)
  class_,           \* the class an instance was created from
  components_,      \* Component.components_: the registry, name -> class
  videojs,          \* window.videojs: the legacy namespace, name -> class
  document,         \* the keydown listeners attached to the document
  controlText_,     \* Button: this.controlText_
  controlTextEl_,   \* Button: this.controlTextEl_.innerHTML
  language,         \* Player: the result of language()
  languages,        \* Player: the result of languages()
  touchHolding,     \* the interval id in the closure of enableTouchActivity()
  focused,          \* history: elements that got a focus event and no blur since
  disposeCalls,     \* history: components on which dispose() was entered
  op,               \* history: the operation of the last step
  threw,            \* history: whether the last operation threw
  turn,             \* history: what the last operation invoked, in order
  snaps             \* history: state seen by the dispose handlers of the last step

vars == <<made, el_, childrenNull, children_, childIndex_, childNameIndex_,
          name_, options_, parentNode, handlers, isReady_, readyQueue_, regs,
          timers, tap, touch, player_, class_, components_, videojs, document,
          controlText_, controlTextEl_, language, languages, touchHolding,
          focused, disposeCalls, op, threw, turn, snaps>>

\* ------------------------------------------------------- the state record
Cur ==
  [made |-> made, el_ |-> el_, childrenNull |-> childrenNull,
   children_ |-> children_, childIndex_ |-> childIndex_,
   childNameIndex_ |-> childNameIndex_, name_ |-> name_, options_ |-> options_,
   parentNode |-> parentNode, handlers |-> handlers, isReady_ |-> isReady_,
   readyQueue_ |-> readyQueue_, regs |-> regs, timers |-> timers,
   tap |-> tap, touch |-> touch, player_ |-> player_, class_ |-> class_,
   components_ |-> components_, videojs |-> videojs, document |-> document,
   controlText_ |-> controlText_, controlTextEl_ |-> controlTextEl_,
   language |-> language, languages |-> languages, touchHolding |-> touchHolding,
   focused |-> focused,
   disposeCalls |-> disposeCalls, thrown |-> FALSE, turn |-> <<>>,
   snaps |-> <<>>]

Commit(s, o) ==
  /\ made' = s.made
  /\ el_' = s.el_
  /\ childrenNull' = s.childrenNull
  /\ children_' = s.children_
  /\ childIndex_' = s.childIndex_
  /\ childNameIndex_' = s.childNameIndex_
  /\ name_' = s.name_
  /\ options_' = s.options_
  /\ parentNode' = s.parentNode
  /\ handlers' = s.handlers
  /\ isReady_' = s.isReady_
  /\ readyQueue_' = s.readyQueue_
  /\ regs' = s.regs
  /\ timers' = s.timers
  /\ tap' = s.tap
  /\ touch' = s.touch
  /\ player_' = s.player_
  /\ class_' = s.class_
  /\ components_' = s.components_
  /\ videojs' = s.videojs
  /\ document' = s.document
  /\ controlText_' = s.controlText_
  /\ controlTextEl_' = s.controlTextEl_
  /\ language' = s.language
  /\ languages' = s.languages
  /\ touchHolding' = s.touchHolding
  /\ focused' = s.focused
  /\ disposeCalls' = s.disposeCalls
  /\ op' = o
  /\ threw' = s.thrown
  /\ turn' = s.turn
  /\ snaps' = s.snaps

Throw(s) == [s EXCEPT !.thrown = TRUE]

\* One entry of the history `turn`.
Entry(e, c, o, g, ty, n) == [e |-> e, c |-> c, o |-> o, g |-> g, ty |-> ty, n |-> n]
Log(s, entry) == [s EXCEPT !.turn = Append(@, entry)]

\* A listener: k its kind, o the component it is bound to, g its guid,
\* t/e the target and type an observed registration was made for, n a timer id.
Listener(k, o, g, t, e, n) == [k |-> k, o |-> o, g |-> g, t |-> t, e |-> e, n |-> n]

NoHandlers == [ty \in AllTypes |-> <<>>]

\* ------------------------------------------------- the DOM and the window
\* A component's methods reach its element through this.el_; an element that
\* is undefined or null makes the event utility read a property of it and throw.
HasEl(s, c) == s.el_[c] = "node"

\* Fn.bind(context, fn): the bound function keeps fn's guid, and a function
\* that is already bound keeps its receiver.
bind(context, fn) == IF fn.o = NoComp THEN [fn EXCEPT !.o = context] ELSE fn

\* Events.on(elem, type, fn) with elem = c.el_
EventsOn(s, c, type, fn) ==
  IF s.thrown THEN s
  ELSE IF ~HasEl(s, c) THEN Throw(s)
  ELSE [s EXCEPT !.handlers[c][type] = Append(@, fn)]

\* Events.off(elem, type, fn) with elem = c.el_: no type removes everything,
\* no fn removes the type's listeners, otherwise every listener with fn's guid.
EventsOff(s, c, type, g) ==
  IF s.thrown THEN s
  ELSE IF ~HasEl(s, c) THEN Throw(s)
  ELSE IF type = NoType THEN [s EXCEPT !.handlers[c] = NoHandlers]
  ELSE IF g = NoGuid THEN [s EXCEPT !.handlers[c][type] = <<>>]
  ELSE LET Keep(h) == h.g # g
       IN [s EXCEPT !.handlers[c][type] = SelectSeq(@, Keep)]

\* window.setTimeout / window.setInterval: the new timer's id is its index.
WindowSetTimer(s, kind, owner, cb, r) ==
  [s EXCEPT !.timers = Append(@, [kind |-> kind, owner |-> owner, cb |-> cb,
                                  r |-> r, st |-> "pending", n |-> 0])]

\* window.clearTimeout / window.clearInterval (one id space, either clears)
WindowClearTimer(s, id) ==
  IF id \in DOMAIN s.timers /\ s.timers[id].st = "pending"
  THEN [s EXCEPT !.timers[id].st = "cleared"]
  ELSE s

TimeoutGuid(id) == "vjs-timeout-" \o ToString(id)
IntervalGuid(id) == "vjs-interval-" \o ToString(id)

\* --------------------------------------------- Component: on / off / one
\* target = NoComp is the local form (first argument a type), otherwise the
\* observed form (first argument another component).
off(s, this, target, type, g) ==
  IF s.thrown THEN s
  ELSE IF target = NoComp THEN EventsOff(s, this, type, g)
  ELSE LET s1 == EventsOff(s, this, "dispose", g)
           s2 == IF s1.thrown THEN s1
                 ELSE Log(s1, Entry("targetOff", target, this, g, type,
                                    IF HasEl(s1, target) THEN 1 ELSE 0))
           s3 == EventsOff(s2, target, type, g)
       IN EventsOff(s3, target, "dispose", g)

on(s, this, target, type, fn) ==
  IF s.thrown THEN s
  ELSE IF target = NoComp THEN EventsOn(s, this, type, bind(this, fn))
  ELSE LET f == bind(this, fn)
           removeOnDispose == Listener("remover", this, f.g, target, type, 0)
           cleanRemover == Listener("clean", this, f.g, target, type, 0)
           s1 == EventsOn(s, this, "dispose", removeOnDispose)
           s2 == EventsOn(s1, target, type, [f EXCEPT !.t = target, !.e = type])
       IN EventsOn(s2, target, "dispose", cleanRemover)

one(s, this, target, type, fn) ==
  IF s.thrown THEN s
  ELSE IF target = NoComp
       THEN EventsOn(s, this, type, [bind(this, fn) EXCEPT !.k = "once"])
       ELSE on(s, this, target, type, [bind(this, fn) EXCEPT !.k = "newFunc"])

\* ------------------------------------------------------ Component: timers
\* clearTimeout() as it would be if it only removed the dispose hook
clearTimeoutKeepsTimer(s, this, timeoutId) ==
  IF s.thrown THEN s
  ELSE off(s, this, NoComp, "dispose", TimeoutGuid(timeoutId))

clearTimeout(s, this, timeoutId) ==
  IF s.thrown THEN s
  ELSE off(WindowClearTimer(s, timeoutId), this, NoComp, "dispose",
           TimeoutGuid(timeoutId))

clearInterval(s, this, intervalId) ==
  IF s.thrown THEN s
  ELSE off(WindowClearTimer(s, intervalId), this, NoComp, "dispose",
           IntervalGuid(intervalId))

setTimeout(s, this, cb, r) ==
  IF s.thrown THEN s
  ELSE LET s1 == WindowSetTimer(s, "timeout", this, cb, r)
           timeoutId == Len(s1.timers)
           disposeFn == Listener("timeout", this, TimeoutGuid(timeoutId),
                                 NoComp, NoType, timeoutId)
       IN on(s1, this, NoComp, "dispose", disposeFn)

setInterval(s, this, cb, r) ==
  IF s.thrown THEN s
  ELSE LET s1 == WindowSetTimer(s, "interval", this, cb, r)
           intervalId == Len(s1.timers)
           disposeFn == Listener("interval", this, IntervalGuid(intervalId),
                                 NoComp, NoType, intervalId)
       IN on(s1, this, NoComp, "dispose", disposeFn)

\* ------------------------------------------------------ event dispatching
\* What a dispose handler can see of the component it is attached to.
Snap(s, c) ==
  [el |-> s.el_[c], nulled |-> s.childrenNull[c], par |-> s.parentNode[c],
   list |-> s.children_[c],
   kids |-> [i \in 1..Len(s.children_[c]) |-> s.el_[s.children_[c][i]]],
   index |-> s.childIndex_[c], names |-> s.childNameIndex_[c],
   local |-> [ty \in EvTypes \ {"dispose"} |-> s.handlers[c][ty]]]

Seen(s, k, c) == [s EXCEPT !.snaps = Append(@, [k |-> k, c |-> c, now |-> Snap(s, c)])]

\* -------------------------------------------------- Component: tap events
tapMovementThreshold == 10
touchTimeThreshold == 200

\* The closure of emitTapEvents(), one for each component that called it
\* (owner is that component).
NoTap == [owner |-> NoComp, touchStart |-> 0, firstTouch |-> <<>>,
          couldBeTap |-> "undefined"]

\* The touch screen: the clock (new Date().getTime()), the contacts that are
\* down, and the event being dispatched (the number of event.touches, the
\* page position of event.touches[0]); then the history of the gesture since
\* the first contact came down: whether it is one contact that only moved,
\* when and where it began, whether every move stayed within the threshold,
\* and whether a second contact was ever down.
\* Further history: the element the gesture began on, whether the candidate
\* has been cancelled since the last touchstart with one contact, whether a
\* contact came down and none has been lifted or cancelled since, the taps
\* emitted and the handleClick calls made since the gesture began, and whether
\* the browser still owes the gesture its click.
NoTouch == [now |-> 0, down |-> 0, touches |-> 0, x |-> 0, y |-> 0, events |-> 0,
            single |-> FALSE, t0 |-> 0, x0 |-> 0, y0 |-> 0, within |-> FALSE,
            multi |-> FALSE, target |-> NoComp, cancelled |-> FALSE,
            held |-> FALSE, taps |-> 0, hc |-> 0, click |-> FALSE]

\* Math.sqrt(xdiff * xdiff + ydiff * ydiff) > threshold, on integers
DistanceExceeds(xdiff, ydiff, threshold) ==
  xdiff * xdiff + ydiff * ydiff > threshold * threshold

RECURSIVE EventsTrigger(_, _, _)

\* the touchstart listener
tapStart(s, this) ==
  IF s.touch.touches = 1
  THEN [s EXCEPT !.tap[this].firstTouch = <<s.touch.x, s.touch.y>>,
                 !.tap[this].touchStart = s.touch.now,
                 !.tap[this].couldBeTap = "true"]
  ELSE s

\* the touchmove listener
tapMove(s, this) ==
  IF s.touch.touches > 1 THEN [s EXCEPT !.tap[this].couldBeTap = "false"]
  ELSE IF s.tap[this].firstTouch # <<>>
  THEN LET xdiff == s.touch.x - s.tap[this].firstTouch[1]
           ydiff == s.touch.y - s.tap[this].firstTouch[2]
       IN IF DistanceExceeds(xdiff, ydiff, tapMovementThreshold)
          THEN [s EXCEPT !.tap[this].couldBeTap = "false"]
          ELSE s
  ELSE s

\* the touchleave and touchcancel listener
noTap(s, this) == [s EXCEPT !.tap[this].couldBeTap = "false"]

\* the touchend listener as it would be if a touch of exactly the threshold
\* still counted
tapEndInclusive(s, this) ==
  LET s1 == [s EXCEPT !.tap[this].firstTouch = <<>>]
  IN IF s1.tap[this].couldBeTap = "true"
     THEN LET touchTime == s1.touch.now - s1.tap[this].touchStart
          IN IF touchTime <= touchTimeThreshold
             THEN EventsTrigger(
                    Log(s1, Entry("preventDefault", this, this, NoGuid, "touchend", 0)),
                    this, "tap")
             ELSE s1
     ELSE s1

\* the touchend listener
tapEnd(s, this) ==
  LET s1 == [s EXCEPT !.tap[this].firstTouch = <<>>]
  IN IF s1.tap[this].couldBeTap = "true"
     THEN LET touchTime == s1.touch.now - s1.tap[this].touchStart
          IN IF touchTime < touchTimeThreshold
             THEN EventsTrigger(
                    Log(s1, Entry("preventDefault", this, this, NoGuid, "touchend", 0)),
                    this, "tap")
             ELSE s1
     ELSE s1

\* emitTapEvents(): five listeners on the component's own element
emitTapEvents(s, this) ==
  LET L(k) == Listener(k, this, k, NoComp, NoType, 0)
      s1 == [s EXCEPT !.tap[this] = [NoTap EXCEPT !.owner = this]]
      s2 == on(s1, this, NoComp, "touchstart", L("tapStart"))
      s3 == on(s2, this, NoComp, "touchmove", L("tapMove"))
      s4 == on(s3, this, NoComp, "touchleave", L("noTap"))
      s5 == on(s4, this, NoComp, "touchcancel", L("noTap"))
  IN on(s5, this, NoComp, "touchend", L("tapEnd"))

\* ------------------------------------------- Component: touch activity
\* this.player().reportUserActivity: a Player has the method, a component
\* that stands in as player has not.
ReportsActivity(s, player) == s.class_[player] = "Player"

\* report(): the player's reportUserActivity, called by a listener of `this`
report(s, this, type) ==
  Log(s, Entry("report", this, s.player_[this], NoGuid, type, 0))

\* enableTouchActivity() as it would be if touchstart left the interval of an
\* earlier touchstart running
activityStartKeepsInterval(s, this) ==
  LET s1 == report(s, this, "touchstart")
      s3 == setInterval(s1, this, "report", 0)
  IN IF s3.thrown THEN s3 ELSE [s3 EXCEPT !.touchHolding[this] = Len(s3.timers)]

\* the touchstart listener of enableTouchActivity()
activityStart(s, this) ==
  LET s1 == report(s, this, "touchstart")
      s2 == clearInterval(s1, this, s1.touchHolding[this])
      s3 == setInterval(s2, this, "report", 0)
  IN IF s3.thrown THEN s3 ELSE [s3 EXCEPT !.touchHolding[this] = Len(s3.timers)]

\* touchEnd, the touchend and touchcancel listener of enableTouchActivity()
activityEnd(s, this, type) ==
  clearInterval(report(s, this, type), this, s.touchHolding[this])

\* enableTouchActivity(): nothing without a player that reports activity
enableTouchActivity(s, this) ==
  IF s.thrown THEN s
  ELSE IF s.player_[this] = NoComp \/ ~ReportsActivity(s, s.player_[this]) THEN s
  ELSE LET L(k) == Listener(k, this, k, NoComp, NoType, 0)
           s1 == on(s, this, NoComp, "touchstart", L("activityStart"))
           s2 == on(s1, this, NoComp, "touchmove", L("report"))
           s3 == on(s2, this, NoComp, "touchend", L("activityEnd"))
       IN on(s3, this, NoComp, "touchcancel", L("activityEnd"))

\* ------------------------------------------------------ Button: handlers
\* handleClick(): the base method is a no-op; the model records the call
handleClick(s, this, type) ==
  Log(s, Entry("handleClick", this, this, NoGuid, type, 0))

\* Fn.bind(this, this.handleKeyPress): every bound copy carries the guid of
\* the one prototype method.
KeyPressFn(this) == Listener("handleKeyPress", this, "handleKeyPress", NoComp, NoType, 0)

\* handleFocus(): Events.on(document, 'keydown', ...)
handleFocus(s, this) == [s EXCEPT !.document = Append(@, KeyPressFn(this))]

\* handleBlur() as it would be if it removed nothing
handleBlurKeepsListener(s, this) == s

\* handleBlur(): Events.off(document, 'keydown', ...) removes by guid
handleBlur(s, this) ==
  LET Keep(h) == h.g # KeyPressFn(this).g
  IN [s EXCEPT !.document = SelectSeq(@, Keep)]

\* handleKeyPress(event)
handleKeyPress(s, this, which) ==
  IF which = 32 \/ which = 13
  THEN handleClick(Log(s, Entry("preventDefault", this, this, NoGuid, "keydown", which)),
                   this, "keydown")
  ELSE s

\* newFunc of one() as it would be if it did not remove itself
newFuncKeepsItself(s, c, type, h) ==
  Log(s, Entry("call", c, h.o, h.g, type, 1))

\* newFunc, the wrapper one() registers on a target: this.off(target, type,
\* newFunc), then the handler
newFunc(s, c, type, h) ==
  LET s1 == off(s, h.o, h.t, h.e, h.g)
  IN IF s1.thrown THEN s1
     ELSE Log(s1, Entry("call", c, h.o, h.g, type, 1))

\* One listener of element c called for an event of the given type.
RunListener(s, c, type, h) ==
  IF s.thrown THEN s
  ELSE CASE h.k = "fn" -> Log(s, Entry("call", c, h.o, h.g, type, 0))
         [] h.k = "once" ->
              Log(EventsOff(s, c, type, h.g), Entry("call", c, h.o, h.g, type, 1))
         [] h.k = "newFunc" -> newFunc(s, c, type, h)
         [] h.k = "remover" -> off(s, h.o, h.t, h.e, h.g)
         [] h.k = "clean" -> off(s, h.o, NoComp, "dispose", h.g)
         [] h.k = "timeout" -> clearTimeout(s, h.o, h.n)
         [] h.k = "interval" -> clearInterval(s, h.o, h.n)
         [] h.k = "tapStart" -> tapStart(s, h.o)
         [] h.k = "tapMove" -> tapMove(s, h.o)
         [] h.k = "noTap" -> noTap(s, h.o)
         [] h.k = "tapEnd" -> tapEnd(s, h.o)
         [] h.k = "activityStart" -> activityStart(s, h.o)
         [] h.k = "report" -> report(s, h.o, type)
         [] h.k = "activityEnd" -> activityEnd(s, h.o, type)
         [] h.k = "handleClick" -> handleClick(s, h.o, type)
         [] h.k = "handleFocus" -> handleFocus(s, h.o)
         [] h.k = "handleBlur" -> handleBlur(s, h.o)

\* The element's dispatcher: it calls a copy of the type's listeners, in order.
RECURSIVE Dispatch(_, _, _, _, _)
Dispatch(s, c, type, handlersCopy, m) ==
  IF s.thrown \/ m > Len(handlersCopy) THEN s
  ELSE LET s1 == IF type = "dispose" THEN Seen(s, handlersCopy[m].k, c) ELSE s
       IN Dispatch(RunListener(s1, c, type, handlersCopy[m]), c, type,
                   handlersCopy, m + 1)

\* Events.trigger(elem, event) with elem = c.el_, for an event that does not bubble
EventsTrigger(s, c, type) ==
  IF s.thrown THEN s
  ELSE IF ~HasEl(s, c) THEN Throw(s)
  ELSE Dispatch(Log(s, Entry("emit", c, NoComp, NoGuid, type, 0)), c, type,
                s.handlers[c][type], 1)

trigger(s, this, event) == EventsTrigger(s, this, event)

\* ------------------------------------------------ Component: ready state
\* A callback passed to ready() is a fresh function, named by its number in regs.
RECURSIVE ready(_, _, _)

\* fn.call(this): the callback runs; a callback that registers a further
\* callback (regs[fn].then) calls this.ready() with it
RunReady(s, this, fn) ==
  LET Body(s1) == IF s1.regs[fn].then = 0 THEN s1 ELSE ready(s1, this, s1.regs[fn].then)
  IN Body(Log([s EXCEPT !.regs[fn].n = @ + 1],
              Entry("cb", this, this, NoGuid, "ready", fn)))

\* ready() as it would be if a ready component called the callback at once
readyInline(s, this, fn) ==
  IF s.thrown \/ fn = 0 THEN s
  ELSE IF s.isReady_[this] THEN RunReady(s, this, fn)
  ELSE [s EXCEPT !.readyQueue_[this] = Append(@, fn)]

\* ready() as it would be if it queued the callback whatever the state
readyQueuesLate(s, this, fn) ==
  IF s.thrown \/ fn = 0 THEN s
  ELSE [s EXCEPT !.readyQueue_[this] = Append(@, fn)]

ready(s, this, fn) ==
  IF s.thrown \/ fn = 0 THEN s
  ELSE IF s.isReady_[this] THEN setTimeout(s, this, "ready", fn)
  ELSE [s EXCEPT !.readyQueue_[this] = Append(@, fn)]

\* triggerReady() as it would be if it set the flag and scheduled nothing
triggerReadySetsFlag(s, this) ==
  IF s.thrown THEN s
  ELSE [s EXCEPT !.isReady_[this] = TRUE]

triggerReady(s, this) ==
  IF s.thrown THEN s
  ELSE setTimeout([s EXCEPT !.isReady_[this] = TRUE], this, "drain", 0)

RECURSIVE ForEachReady(_, _, _, _)
ForEachReady(s, this, readyQueue, i) ==
  IF i > Len(readyQueue) THEN s
  ELSE ForEachReady(RunReady(s, this, readyQueue[i]), this, readyQueue, i + 1)

\* the function triggerReady() hands to setTimeout, as it would be if it did
\* not reset the queue
ReadyDrainKeepsQueue(s, this) ==
  LET readyQueue == s.readyQueue_[this]
      s1 == IF Len(readyQueue) > 0
            THEN ForEachReady(s, this, readyQueue, 1)
            ELSE s
  IN trigger(s1, this, "ready")

\* the function triggerReady() hands to setTimeout
ReadyDrain(s, this) ==
  LET readyQueue == s.readyQueue_[this]
      s1 == IF Len(readyQueue) > 0
            THEN [ForEachReady(s, this, readyQueue, 1) EXCEPT !.readyQueue_[this] = <<>>]
            ELSE s
  IN trigger(s1, this, "ready")

\* -------------------------------------------------- Component: children
NoName == ""
DeclNames == Names \cup {"Y", "Z"}
NoIndex == [i \in Comp |-> NoComp]
ChildNames == DeclNames \cup {"w", "button"}
NoNameIndex == [n \in ChildNames |-> NoComp]

\* The classes: Component, Button, and a Player, which is a Component with
\* play() and reportUserActivity().  A class is registered under a name.
Classes == {"Component", "Button", "Player"}
ClassNames == {"Component", "Button", "X", "Y", "Z", "W"}

\* toTitleCase(name) of the child names
toTitleCase == [n \in ChildNames |-> CASE n = "w" -> "W"
                                        [] n = "button" -> "Button"
                                        [] OTHER -> n]

\* The registry when the modules are loaded: Component and Button register
\* themselves, and the program has registered plain components X, Y and Z.
Registered == [n \in ClassNames |-> CASE n = "Button" -> "Button"
                                       [] n = "W" -> "undefined"
                                       [] OTHER -> "Component"]
Unregistered == [n \in ClassNames |-> "undefined"]

\* Component.registerComponent(name, comp)
registerComponent(s, name, comp) == [s EXCEPT !.components_[name] = comp]

\* Component.getComponent(name): the registry, then window.videojs (with a
\* deprecation warning), else undefined
getComponent(s, name) ==
  IF s.components_[name] # "undefined" THEN s.components_[name]
  ELSE IF s.videojs[name] # "undefined" THEN s.videojs[name]
  ELSE "undefined"

\* options.componentClass: child options that name a class are written as
\* that name, "object" is an object without componentClass
componentClass(options) == IF options \in ClassNames THEN options ELSE "undefined"

\* The options of a component that the model keeps: options.name, the
\* options.children declaration (an array of names and {name, ...} records, or
\* an object name -> options) and the top-level entries options[name] of the
\* declared names.  Child options are an object ("object") or false ("false").
\* options.createEl is false for a component that gets no element.
NoOver == [n \in DeclNames |-> "undefined"]
Options(name) ==
  [name |-> name, form |-> "array", children |-> <<>>, over |-> NoOver, createEl |-> TRUE]

\* the instance `new ComponentClass(...)` creates next
NewComp(s) == CHOOSE c \in Comp \ s.made : \A d \in Comp \ s.made : c <= d

\* node.appendChild(child): the DOM refuses a child that contains the node
RECURSIVE Contains(_, _, _, _)
Contains(s, ancestor, c, fuel) ==
  IF c = ancestor THEN TRUE
  ELSE IF fuel = 0 \/ s.parentNode[c] = NoComp THEN FALSE
  ELSE Contains(s, ancestor, s.parentNode[c], fuel - 1)

appendChild(s, node, child) ==
  IF s.thrown THEN s
  ELSE IF ~HasEl(s, node) \/ Contains(s, child, node, NComp) THEN Throw(s)
  ELSE [s EXCEPT !.parentNode[child] = node]

RECURSIVE constructor(_, _, _, _, _), addChild(_, _, _, _, _)

\* handleAdd as it would be if the nested per-child options always won
handleAddNestedWins(s, this, name, opts) ==
  IF s.thrown THEN s
  ELSE IF opts = "false"
       THEN Log(s, Entry("skip", this, NoComp, NoGuid, name, 0))
       ELSE addChild(s, this, NewComp(s), name, opts)

\* handleAdd(name, opts) of initChildren
handleAdd(s, this, name, opts) ==
  IF s.thrown THEN s
  ELSE LET parentOptions == s.options_[this]
           resolved == IF parentOptions.over[name] # "undefined"
                       THEN parentOptions.over[name]
                       ELSE opts
       IN IF resolved = "false"
          THEN Log(s, Entry("skip", this, NoComp, NoGuid, name, 0))
          ELSE addChild(s, this, NewComp(s), name, resolved)

\* the loop over an array declaration, or over the own property names of an
\* object declaration (in the order the properties were created)
RECURSIVE ForEachChild(_, _, _, _)
ForEachChild(s, this, children, i) ==
  IF s.thrown \/ i > Len(children) THEN s
  ELSE ForEachChild(handleAdd(s, this, children[i].name, children[i].opts),
                    this, children, i + 1)

initChildren(s, this) ==
  LET children == s.options_[this].children
  IN IF Len(children) > 0 THEN ForEachChild(s, this, children, 1) ELSE s

\* the component-side result of `new Component(player, options, ready)`, as it
\* would be if the constructor triggered ready itself
constructorTriggersReady(s, this, player, options, fn) ==
  LET s1 == [s EXCEPT !.made = @ \cup {this},
                      !.player_[this] = IF player = NoComp /\ s.class_[this] = "Player"
                                        THEN this ELSE player,
                      !.options_[this] = options,
                      !.name_[this] = options.name,
                      !.el_[this] = IF options.createEl THEN "node" ELSE "undefined",
                      !.controlTextEl_[this] = IF s.class_[this] = "Button" THEN "" ELSE @,
                      !.children_[this] = <<>>,
                      !.childIndex_[this] = NoIndex,
                      !.childNameIndex_[this] = NoNameIndex,
                      !.childrenNull[this] = FALSE]
  IN enableTouchActivity(triggerReady(ready(initChildren(s1, this), this, fn), this), this)

\* the constructor as it would be if it stored the player it was given even
\* when that is undefined and the instance is a player
constructorKeepsPlayer(s, this, player, options, fn) ==
  LET s1 == [s EXCEPT !.made = @ \cup {this},
                      !.player_[this] = player,
                      !.options_[this] = options,
                      !.name_[this] = options.name,
                      !.el_[this] = IF options.createEl THEN "node" ELSE "undefined",
                      !.controlTextEl_[this] = IF s.class_[this] = "Button" THEN "" ELSE @,
                      !.children_[this] = <<>>,
                      !.childIndex_[this] = NoIndex,
                      !.childNameIndex_[this] = NoNameIndex,
                      !.childrenNull[this] = FALSE]
  IN enableTouchActivity(ready(initChildren(s1, this), this, fn), this)

\* the component-side result of `new Component(player, options, ready)`, with
\* options.reportTouchActivity at its default; `this.play` is there when the
\* instance is a Player, and createEl() of a Button also makes the text element
constructor(s, this, player, options, fn) ==
  LET s1 == [s EXCEPT !.made = @ \cup {this},
                      !.player_[this] = IF player = NoComp /\ s.class_[this] = "Player"
                                        THEN this ELSE player,
                      !.options_[this] = options,
                      !.name_[this] = options.name,
                      !.el_[this] = IF options.createEl THEN "node" ELSE "undefined",
                      !.controlTextEl_[this] = IF s.class_[this] = "Button" THEN "" ELSE @,
                      !.children_[this] = <<>>,
                      !.childIndex_[this] = NoIndex,
                      !.childNameIndex_[this] = NoNameIndex,
                      !.childrenNull[this] = FALSE]
  IN enableTouchActivity(ready(initChildren(s1, this), this, fn), this)

\* a method of the class, passed to on(): it has no receiver until it is bound
Method(k) == Listener(k, NoComp, k, NoComp, NoType, 0)

\* the constructor of Button
ButtonConstructor(s, this, player, options) ==
  LET s1 == constructor(s, this, player, options, 0)
      s2 == emitTapEvents(s1, this)
      s3 == on(s2, this, NoComp, "tap", Method("handleClick"))
      s4 == on(s3, this, NoComp, "click", Method("handleClick"))
      s5 == on(s4, this, NoComp, "focus", Method("handleFocus"))
  IN on(s5, this, NoComp, "blur", Method("handleBlur"))

\* `new ComponentClass(player, options, ready)`: the instance gets its class,
\* then the constructor of the class runs
New(s, ComponentClass, this, player, options, fn) ==
  IF s.thrown THEN s
  ELSE LET s1 == [s EXCEPT !.class_[this] = ComponentClass]
       IN IF ComponentClass = "Button" THEN ButtonConstructor(s1, this, player, options)
          ELSE constructor(s1, this, player, options, fn)

\* ------------------------------------------------- Button: control text
\* Strings that are set as control text, language codes, and dictionaries.  A
\* dictionary maps a text to its translation ("" for no entry); the
\* languages object maps a code to its dictionary.
Texts == {"Play", "Mute"}
Codes == {"es", "es-MX"}
Translations == {"Juego", "Reproducir"}
NoEntries == [x \in Texts |-> ""]
NoDictionary == [defined |-> FALSE, entry |-> NoEntries]
Dictionaries ==
  {NoDictionary} \cup {[defined |-> TRUE, entry |-> e] : e \in [Texts -> Translations \cup {""}]}
NoLanguages == [defined |-> FALSE, dict |-> [c \in Codes |-> NoDictionary]]
Languages == {NoLanguages} \cup {[defined |-> TRUE, dict |-> d] : d \in [Codes -> Dictionaries]}

\* code.split('-')[0]
primaryCode == [c \in Codes |-> IF c = "es-MX" THEN "es" ELSE c]

\* localize(string); a player that is not a Player has no language()
localize(s, this, string) ==
  LET player == s.player_[this]
      code == IF s.class_[player] = "Player" THEN s.language ELSE ""
      langs == IF s.class_[player] = "Player" THEN s.languages ELSE NoLanguages
  IN IF code = "" \/ ~langs.defined THEN string
     ELSE LET lang == langs.dict[code]
              primaryLang == langs.dict[primaryCode[code]]
          IN IF lang.defined /\ lang.entry[string] # "" THEN lang.entry[string]
             ELSE IF primaryLang.defined /\ primaryLang.entry[string] # ""
             THEN primaryLang.entry[string]
             ELSE string

\* controlText() as it would be if it kept the localized text
controlTextKeepsLocalized(s, this, text) ==
  IF s.thrown THEN s
  ELSE IF text = ""
  THEN Log(s, Entry("return", this, this, NoGuid,
                    IF s.controlText_[this] # "" THEN s.controlText_[this]
                    ELSE "Need Text", 0))
  ELSE IF s.controlTextEl_[this] = "undefined" \/ s.player_[this] = NoComp
  THEN Throw([s EXCEPT !.controlText_[this] = text])
  ELSE [s EXCEPT !.controlText_[this] = localize(s, this, text),
                 !.controlTextEl_[this] = localize(s, this, text)]

\* controlText(text): the getter when text is undefined or empty (""), else
\* the setter; an unset this.controlText_ is written "".  Reading a property of
\* an undefined player or text element is a TypeError.
controlText(s, this, text) ==
  IF s.thrown THEN s
  ELSE IF text = ""
  THEN Log(s, Entry("return", this, this, NoGuid,
                    IF s.controlText_[this] # "" THEN s.controlText_[this]
                    ELSE "Need Text", 0))
  ELSE LET s1 == [s EXCEPT !.controlText_[this] = text]
       IN IF s1.controlTextEl_[this] = "undefined" \/ s1.player_[this] = NoComp
          THEN Throw(s1)
          ELSE [s1 EXCEPT !.controlTextEl_[this] = localize(s1, this, text)]

\* the player addChild() would pass to the constructor of a child if it
\* passed the parent
childPlayerIsParent(s, this) == this

\* the player addChild() passes to the constructor of a child: `this.player_ ||
\* this`
childPlayer(s, this) == IF s.player_[this] # NoComp THEN s.player_[this] ELSE this

\* addChild() as it would be if options === false skipped the child
addChildSkipsFalse(s, this, component, componentName, options) ==
  IF s.thrown THEN s
  ELSE IF componentName # NoName /\ options = "false"
  THEN Log(s, Entry("addChild", this, NoComp, NoGuid, componentName, 1))
  ELSE LET s0 == Log(s, Entry("addChild", this, component,
                              IF componentClass(options) # "undefined"
                              THEN componentClass(options) ELSE NoGuid,
                              componentName, 0))
           componentClassName == IF componentClass(options) # "undefined"
                                 THEN componentClass(options)
                                 ELSE toTitleCase[componentName]
           ComponentClass == getComponent(s0, componentClassName)
           n == IF componentName # NoName THEN componentName ELSE s.name_[component]
           Push(s1) ==
             IF s1.thrown THEN s1
             ELSE IF s1.childrenNull[this] THEN Throw(s1)
             ELSE [s1 EXCEPT !.children_[this] = Append(@, component),
                             !.childIndex_[this][component] = component]
           Index(s2) ==
             IF s2.thrown \/ n = NoName THEN s2
             ELSE [s2 EXCEPT !.childNameIndex_[this][n] = component]
           Mount(s3) ==
             IF s3.thrown \/ ~HasEl(s3, component) THEN s3
             ELSE appendChild(s3, this, component)
           s1 == IF componentName = NoName THEN s0
                 ELSE IF ComponentClass = "undefined" THEN Throw(s0)
                 ELSE New(s0, ComponentClass, component,
                          childPlayer(s0, this),
                          Options(componentName), 0)
       IN Mount(Index(Push(s1)))

\* addChild() as it would be if a name that resolves to no class were skipped
addChildSkipsUnknown(s, this, component, componentName, options) ==
  IF s.thrown THEN s
  ELSE LET s0 == Log(s, Entry("addChild", this, component,
                              IF componentClass(options) # "undefined"
                              THEN componentClass(options) ELSE NoGuid,
                              componentName, IF options = "false" THEN 1 ELSE 0))
           componentClassName == IF componentClass(options) # "undefined"
                                 THEN componentClass(options)
                                 ELSE toTitleCase[componentName]
           ComponentClass == getComponent(s0, componentClassName)
           n == IF componentName # NoName THEN componentName ELSE s.name_[component]
           Push(s1) ==
             IF s1.thrown THEN s1
             ELSE IF s1.childrenNull[this] THEN Throw(s1)
             ELSE [s1 EXCEPT !.children_[this] = Append(@, component),
                             !.childIndex_[this][component] = component]
           Index(s2) ==
             IF s2.thrown \/ n = NoName THEN s2
             ELSE [s2 EXCEPT !.childNameIndex_[this][n] = component]
           Mount(s3) ==
             IF s3.thrown \/ ~HasEl(s3, component) THEN s3
             ELSE appendChild(s3, this, component)
           s1 == IF componentName = NoName THEN s0
                 ELSE IF ComponentClass = "undefined" THEN Throw(s0)
                 ELSE New(s0, ComponentClass, component,
                          childPlayer(s0, this),
                          Options(componentName), 0)
       IN IF componentName # NoName /\ ComponentClass = "undefined" THEN s0
          ELSE Mount(Index(Push(s1)))

\* addChild(child, options): `component` is the instance passed in, or the one
\* the method constructs when a name is passed (componentName # NoName);
\* options is "object", "false" or the name of a class, and false is converted
\* to an empty object.  `new` of an undefined class is a TypeError.
\* The options of the child carry no declaration of their own.
addChild(s, this, component, componentName, options) ==
  IF s.thrown THEN s
  ELSE LET s0 == Log(s, Entry("addChild", this, component,
                              IF componentClass(options) # "undefined"
                              THEN componentClass(options) ELSE NoGuid,
                              componentName, IF options = "false" THEN 1 ELSE 0))
           componentClassName == IF componentClass(options) # "undefined"
                                 THEN componentClass(options)
                                 ELSE toTitleCase[componentName]
           ComponentClass == getComponent(s0, componentClassName)
           n == IF componentName # NoName THEN componentName ELSE s.name_[component]
           Push(s1) ==
             IF s1.thrown THEN s1
             ELSE IF s1.childrenNull[this] THEN Throw(s1)
             ELSE [s1 EXCEPT !.children_[this] = Append(@, component),
                             !.childIndex_[this][component] = component]
           Index(s2) ==
             IF s2.thrown \/ n = NoName THEN s2
             ELSE [s2 EXCEPT !.childNameIndex_[this][n] = component]
           Mount(s3) ==
             IF s3.thrown \/ ~HasEl(s3, component) THEN s3
             ELSE appendChild(s3, this, component)
           s1 == IF componentName = NoName THEN s0
                 ELSE IF ComponentClass = "undefined" THEN Throw(s0)
                 ELSE New(s0, ComponentClass, component,
                          childPlayer(s0, this),
                          Options(componentName), 0)
       IN Mount(Index(Push(s1)))

\* getChildById(id) and getChild(name) read an index; the containers of a
\* disposed component are null, and reading a property of null throws.
getChildById(s, this, id) == s.childIndex_[this][id]
getChild(s, this, name) == s.childNameIndex_[this][name]

RemoveAt(seq, i) == [j \in 1..(Len(seq) - 1) |-> IF j < i THEN seq[j] ELSE seq[j + 1]]

LastIndexOf(seq, x) ==
  IF \E i \in 1..Len(seq) : seq[i] = x
  THEN CHOOSE i \in 1..Len(seq) : seq[i] = x /\ \A j \in (i + 1)..Len(seq) : seq[j] # x
  ELSE 0

\* removeChild() as it would be if it left the two indexes alone
removeChildKeepsIndex(s, this, arg, byName) ==
  IF s.thrown THEN s
  ELSE IF byName # NoName /\ s.childrenNull[this] THEN Throw(s)
  ELSE LET component == IF byName # NoName THEN getChild(s, this, byName) ELSE arg
           Called(found) == Log(s, Entry("removeChild", this, component, NoGuid,
                                         byName, found))
       IN IF component = NoComp \/ s.childrenNull[this] THEN Called(0)
          ELSE LET i == LastIndexOf(s.children_[this], component)
               IN IF i = 0 THEN Called(0)
                  ELSE LET s1 == [Called(1) EXCEPT !.children_[this] = RemoveAt(@, i)]
                       IN IF HasEl(s1, component) /\ s1.parentNode[component] = this
                          THEN [s1 EXCEPT !.parentNode[component] = NoComp]
                          ELSE s1

\* removeChild(component): byName is the string form of the argument
removeChild(s, this, arg, byName) ==
  IF s.thrown THEN s
  ELSE IF byName # NoName /\ s.childrenNull[this] THEN Throw(s)
  ELSE LET component == IF byName # NoName THEN getChild(s, this, byName) ELSE arg
           Called(found) == Log(s, Entry("removeChild", this, component, NoGuid,
                                         byName, found))
       IN IF component = NoComp \/ s.childrenNull[this] THEN Called(0)
          ELSE LET i == LastIndexOf(s.children_[this], component)
               IN IF i = 0 THEN Called(0)
                  ELSE LET s1 == [Called(1) EXCEPT
                                    !.children_[this] = RemoveAt(@, i),
                                    !.childIndex_[this][component] = NoComp]
                           s2 == IF s.name_[component] = NoName THEN s1
                                 ELSE [s1 EXCEPT
                                        !.childNameIndex_[this][s.name_[component]] = NoComp]
                       IN IF HasEl(s2, component) /\ s2.parentNode[component] = this
                          THEN [s2 EXCEPT !.parentNode[component] = NoComp]
                          ELSE s2

\* ---------------------------------------------------- Component: dispose
\* `depth` counts the dispose() frames on the stack: more frames than there
\* are components means a component is its own descendant, and the
\* recursion ends in a RangeError.
RECURSIVE dispose(_, _, _), DisposeChildren(_, _, _, _)
DisposeChildren(s, this, i, depth) ==
  IF s.thrown \/ i < 1 THEN s
  ELSE LET child == s.children_[this][i]
           s1 == Log(s, Entry("disposeChild", this, child, NoGuid, NoType, i))
       IN DisposeChildren(dispose(s1, child, depth + 1), this, i - 1, depth)

\* dispose() as it would be if the dispose event were emitted after the
\* children had been disposed
disposeEmitsLate(s, this, depth) ==
  IF s.thrown THEN s
  ELSE IF depth > NComp THEN Throw(s)
  ELSE LET Children(s1) ==
             IF s1.childrenNull[this] THEN s1
             ELSE DisposeChildren(s1, this, Len(s1.children_[this]), depth)
           Containers(s2) ==
             IF s2.thrown THEN s2
             ELSE [s2 EXCEPT !.childrenNull[this] = TRUE,
                             !.children_[this] = <<>>,
                             !.childIndex_[this] = NoIndex,
                             !.childNameIndex_[this] = NoNameIndex]
           Detach(s4) ==
             IF s4.thrown THEN s4
             ELSE IF ~HasEl(s4, this) THEN Throw(s4)
             ELSE [s4 EXCEPT !.parentNode[this] = NoComp]
           Null(s5) ==
             IF s5.thrown THEN s5
             ELSE Log([s5 EXCEPT !.el_[this] = "null"],
                      Entry("disposed", this, NoComp, NoGuid, NoType, 0))
           s0 == Seen([s EXCEPT !.disposeCalls = @ \cup {this}], "begin", this)
       IN Null(Detach(off(Containers(trigger(Children(s0), this, "dispose")),
                          this, NoComp, NoType, NoGuid)))

\* dispose() as it would be without its this.off() call
disposeKeepsListeners(s, this, depth) ==
  IF s.thrown THEN s
  ELSE IF depth > NComp THEN Throw(s)
  ELSE LET Children(s1) ==
             IF s1.thrown \/ s1.childrenNull[this] THEN s1
             ELSE DisposeChildren(s1, this, Len(s1.children_[this]), depth)
           Containers(s2) ==
             IF s2.thrown THEN s2
             ELSE [s2 EXCEPT !.childrenNull[this] = TRUE,
                             !.children_[this] = <<>>,
                             !.childIndex_[this] = NoIndex,
                             !.childNameIndex_[this] = NoNameIndex]
           Detach(s4) ==
             IF s4.thrown THEN s4
             ELSE IF ~HasEl(s4, this) THEN Throw(s4)
             ELSE [s4 EXCEPT !.parentNode[this] = NoComp]
           Null(s5) ==
             IF s5.thrown THEN s5
             ELSE Log([s5 EXCEPT !.el_[this] = "null"],
                      Entry("disposed", this, NoComp, NoGuid, NoType, 0))
           s0 == Seen([s EXCEPT !.disposeCalls = @ \cup {this}], "begin", this)
       IN Null(Detach(Containers(Children(trigger(s0, this, "dispose")))))

dispose(s, this, depth) ==
  IF s.thrown THEN s
  ELSE IF depth > NComp THEN Throw(s)
  ELSE LET Children(s1) ==
             IF s1.thrown \/ s1.childrenNull[this] THEN s1
             ELSE DisposeChildren(s1, this, Len(s1.children_[this]), depth)
           Containers(s2) ==
             IF s2.thrown THEN s2
             ELSE [s2 EXCEPT !.childrenNull[this] = TRUE,
                             !.children_[this] = <<>>,
                             !.childIndex_[this] = NoIndex,
                             !.childNameIndex_[this] = NoNameIndex]
           Detach(s4) ==
             IF s4.thrown THEN s4
             ELSE IF ~HasEl(s4, this) THEN Throw(s4)
             ELSE [s4 EXCEPT !.parentNode[this] = NoComp]
           Null(s5) ==
             IF s5.thrown THEN s5
             ELSE Log([s5 EXCEPT !.el_[this] = "null"],
                      Entry("disposed", this, NoComp, NoGuid, NoType, 0))
           s0 == Seen([s EXCEPT !.disposeCalls = @ \cup {this}], "begin", this)
       IN Null(Detach(off(Containers(Children(trigger(s0, this, "dispose"))),
                          this, NoComp, NoType, NoGuid)))

\* ----------------------------------------------------------- the machine
MaxListeners == 4   \* listeners attached at one time, over all elements
MaxSlots == 2       \* children in all lists when an instance is added
MaxDecl == 3        \* entries of an options.children declaration
MaxEvents == 5      \* touch events delivered
MaxDown == 2        \* contacts on the screen at one time
MaxFocus == 2       \* keydown listeners attached to the document
MaxObserved == 2    \* observed registrations the first component holds

Op(name, c) == [name |-> name, c |-> c]

\* The state after `new Component(undefined, {})` of component 1.
Init ==
  /\ made = {1}
  /\ el_ = [c \in Comp |-> IF c = 1 THEN "node" ELSE "undefined"]
  /\ childrenNull = [c \in Comp |-> FALSE]
  /\ children_ = [c \in Comp |-> <<>>]
  /\ childIndex_ = [c \in Comp |-> NoIndex]
  /\ childNameIndex_ = [c \in Comp |-> NoNameIndex]
  /\ name_ = [c \in Comp |-> NoName]
  /\ options_ = [c \in Comp |-> Options(NoName)]
  /\ parentNode = [c \in Comp |-> NoComp]
  /\ handlers = [c \in Comp |-> NoHandlers]
  /\ isReady_ = [c \in Comp |-> FALSE]
  /\ readyQueue_ = [c \in Comp |-> <<>>]
  /\ regs = <<>>
  /\ timers = <<>>
  /\ tap = [c \in Comp |-> NoTap]
  /\ touch = NoTouch
  /\ player_ = [c \in Comp |-> NoComp]
  /\ class_ = [c \in Comp |-> IF c = 1 THEN "Component" ELSE "undefined"]
  /\ components_ = Registered
  /\ videojs = Unregistered
  /\ document = <<>>
  /\ controlText_ = [c \in Comp |-> ""]
  /\ controlTextEl_ = [c \in Comp |-> "undefined"]
  /\ language = ""
  /\ languages = NoLanguages
  /\ touchHolding = [c \in Comp |-> 0]
  /\ focused = {}
  /\ disposeCalls = {}
  /\ op = Op("new", 1)
  /\ threw = FALSE
  /\ turn = <<>>
  /\ snaps = <<>>

\* The state before any component is constructed.
InitEmpty ==
  /\ made = {}
  /\ el_ = [c \in Comp |-> "undefined"]
  /\ childrenNull = [c \in Comp |-> FALSE]
  /\ children_ = [c \in Comp |-> <<>>]
  /\ childIndex_ = [c \in Comp |-> NoIndex]
  /\ childNameIndex_ = [c \in Comp |-> NoNameIndex]
  /\ name_ = [c \in Comp |-> NoName]
  /\ options_ = [c \in Comp |-> Options(NoName)]
  /\ parentNode = [c \in Comp |-> NoComp]
  /\ handlers = [c \in Comp |-> NoHandlers]
  /\ isReady_ = [c \in Comp |-> FALSE]
  /\ readyQueue_ = [c \in Comp |-> <<>>]
  /\ regs = <<>>
  /\ timers = <<>>
  /\ tap = [c \in Comp |-> NoTap]
  /\ touch = NoTouch
  /\ player_ = [c \in Comp |-> NoComp]
  /\ class_ = [c \in Comp |-> "undefined"]
  /\ components_ = Registered
  /\ videojs = Unregistered
  /\ document = <<>>
  /\ controlText_ = [c \in Comp |-> ""]
  /\ controlTextEl_ = [c \in Comp |-> "undefined"]
  /\ language = ""
  /\ languages = NoLanguages
  /\ touchHolding = [c \in Comp |-> 0]
  /\ focused = {}
  /\ disposeCalls = {}
  /\ op = Op("none", NoComp)
  /\ threw = FALSE
  /\ turn = <<>>
  /\ snaps = <<>>

\* Callers use components that exist and that they have not disposed.
Live == {c \in made : el_[c] = "node"}
Unmade == Comp \ made
NextComp == CHOOSE c \in Unmade : \A d \in Unmade : c <= d

RECURSIVE Sum(_, _)
Sum(f, S) == IF S = {} THEN 0 ELSE LET x == CHOOSE x \in S : TRUE IN f[x] + Sum(f, S \ {x})
Attached == Sum([x \in Comp \X EvTypes |-> Len(handlers[x[1]][x[2]])], Comp \X EvTypes)
Room(n) == Attached + n <= MaxListeners
Slots == Sum([c \in Comp |-> Len(children_[c])], Comp)
UserFn(g) == Listener("fn", NoComp, g, NoComp, NoType, 0)

\* a new callback for ready(): its number, and regs with it added
NewReg(s, c) ==
  [s EXCEPT !.regs = Append(@, [c |-> c, late |-> s.isReady_[c], n |-> 0, then |-> 0])]

\* a new callback that passes a further new callback to ready() when it runs
NewNested(s, c) ==
  [s EXCEPT !.regs = @ \o <<[c |-> c, late |-> s.isReady_[c], n |-> 0,
                             then |-> Len(s.regs) + 2],
                            [c |-> c, late |-> TRUE, n |-> 0, then |-> 0]>>]

\* the timers that callbacks which have not run yet will ask for
Reserved == Cardinality({r \in DOMAIN regs : regs[r].then # 0 /\ regs[r].n = 0})

\* new Component(player, options)
Construct ==
  /\ Unmade # {}
  /\ Commit(New(Cur, "Component", NextComp, NoComp, Options(NoName), 0),
            Op("new", NextComp))

\* new Component(player, options, ready)
ConstructReady ==
  /\ Unmade # {}
  /\ Len(regs) < MaxRegs
  /\ LET s == NewReg(Cur, NextComp)
     IN Commit(New(s, "Component", NextComp, NoComp, Options(NoName), Len(s.regs)),
               Op("new", NextComp))

\* the options a caller can pass: an array declaration has names and records
\* (never false), an object declaration has each name once
DeclEntries == [name : DeclNames, opts : {"object", "false"}]
Declarations == UNION {[1..n -> DeclEntries] : n \in 1..MaxDecl}
DeclOptions ==
  {o \in [name : {NoName}, form : {"array", "object"}, children : Declarations,
          over : [DeclNames -> {"undefined", "object", "false"}],
          createEl : {TRUE}] :
     /\ o.form = "array" => \A i \in DOMAIN o.children : o.children[i].opts = "object"
     /\ o.form = "object" =>
          \A i \in DOMAIN o.children, j \in DOMAIN o.children :
            o.children[i].name = o.children[j].name => i = j}

\* the declared children that initChildren will construct
Wanted(o) ==
  {i \in DOMAIN o.children :
     IF o.over[o.children[i].name] # "undefined"
     THEN o.over[o.children[i].name] # "false"
     ELSE o.children[i].opts # "false"}

\* new Component(player, {children: ...}) of the first component
ConstructDeclared ==
  \E o \in DeclOptions :
    /\ made = {}
    /\ Cardinality(Wanted(o)) < Cardinality(Unmade)
    /\ Commit(New(Cur, "Component", NextComp, NoComp, o, 0), Op("new", NextComp))

\* parent.addChild(name, false)
AddChildFalse ==
  /\ Unmade # {}
  /\ \E p \in Live, name \in Names :
       /\ Len(children_[p]) < MaxKids
       /\ Commit(addChild(Cur, p, NextComp, name, "false"), Op("addChild", p))

\* parent.addChild(name)
AddChildName ==
  /\ Unmade # {}
  /\ \E p \in Live, name \in Names :
       /\ Len(children_[p]) < MaxKids
       /\ Commit(addChild(Cur, p, NextComp, name, "object"),
                 Op("addChild", p))

\* parent.addChild(instance)
AddChildInstance ==
  \E p \in Live, c \in Live :
    /\ Len(children_[p]) < MaxKids
    /\ Slots < MaxSlots
    /\ Commit(addChild(Cur, p, c, NoName, "object"), Op("addChild", p))

\* parent.removeChild(instance) and parent.removeChild(name)
RemoveChild ==
  \E p \in Live, c \in made :
    Commit(removeChild(Cur, p, c, NoName), Op("removeChild", p))

RemoveChildName ==
  \E p \in Live, name \in Names :
    Commit(removeChild(Cur, p, NoComp, name), Op("removeChild", p))

\* a straggler's removeChild on a component that has been disposed
RemoveChildDisposed ==
  \E p \in made \ Live, c \in made :
    Commit(removeChild(Cur, p, c, NoName), Op("removeChild", p))

RemoveChildNameDisposed ==
  \E p \in made \ Live, name \in Names :
    Commit(removeChild(Cur, p, NoComp, name), Op("removeChild", p))

\* the result of a lookup, or the TypeError of reading an index that is null
Lookup(s, this, key, result) ==
  IF s.childrenNull[this] THEN Throw(s)
  ELSE Log(s, Entry("lookup", this, result, NoGuid, key, 0))

\* p.getChildById(id) and p.getChild(name), on any component that was constructed
GetChildById ==
  \E p \in made, id \in Comp :
    Commit(Lookup(Cur, p, ToString(id), IF childrenNull[p] THEN NoComp
                                        ELSE getChildById(Cur, p, id)),
           Op("getChildById", p))

GetChild ==
  \E p \in made, name \in Names :
    Commit(Lookup(Cur, p, name, IF childrenNull[p] THEN NoComp
                                ELSE getChild(Cur, p, name)),
           Op("getChild", p))

\* c.on(type, fn)
OnLocal ==
  \E c \in Live, type \in EvTypes, g \in Fns :
    /\ Room(1)
    /\ Commit(on(Cur, c, NoComp, type, UserFn(g)), Op("on", c))

\* p.on(q, type, fn) and p.one(q, type, fn), q another component
OnObserved ==
  \E p \in Live : \E q \in Live \ {p}, type \in UserTypes, g \in Fns :
    /\ Room(3)
    /\ Commit(on(Cur, p, q, type, UserFn(g)), Op("on", p))

OneObserved ==
  \E p \in Live : \E q \in Live \ {p}, type \in UserTypes, g \in Fns :
    /\ Room(3)
    /\ Commit(one(Cur, p, q, type, UserFn(g)), Op("one", p))

\* p.off(q, type, fn)
OffObserved ==
  \E p \in Live : \E q \in Live \ {p}, type \in UserTypes, g \in Fns :
    Commit(off(Cur, p, q, type, g), Op("off", p))

\* c.off(), c.off(type) and c.off(type, fn)
OffLocal ==
  \E c \in Live, type \in EvTypes \cup {NoType}, g \in Fns \cup {NoGuid} :
    /\ type = NoType => g = NoGuid
    /\ Commit(off(Cur, c, NoComp, type, g), Op("off", c))

\* The first component schedules a callback, and clears its own listeners:
\* p.setTimeout(fn, d), p.off() and p.off('dispose').
ObserverTimeout ==
  /\ 1 \in Live /\ Len(timers) < MaxTimers
  /\ Commit(setTimeout(Cur, 1, "user", 0), Op("setTimeout", 1))

ObserverClear ==
  \E type \in {NoType, "dispose"} :
    /\ 1 \in Live
    /\ Commit(off(Cur, 1, NoComp, type, NoGuid), Op("off", 1))

\* c.off('dispose')
OffDispose ==
  \E c \in Live : Commit(off(Cur, c, NoComp, "dispose", NoGuid), Op("off", c))

\* The first component registers handlers on other components, up to two
\* at a time: p.on(q, type, fn) and p.one(q, type, fn).
ObsTypes == UserTypes \cup {"ready"}
Observing(p) ==
  Sum([x \in Comp \X ObsTypes |->
         Cardinality({i \in DOMAIN handlers[x[1]][x[2]] :
                        handlers[x[1]][x[2]][i].o = p /\ handlers[x[1]][x[2]][i].t = x[1]})],
      Comp \X ObsTypes)

ObserveOn ==
  \E q \in Live \ {1}, type \in ObsTypes, g \in Fns :
    /\ 1 \in Live /\ Observing(1) < MaxObserved
    /\ Commit(on(Cur, 1, q, type, UserFn(g)), Op("on", 1))

ObserveOne ==
  \E q \in Live \ {1}, type \in ObsTypes, g \in Fns :
    /\ 1 \in Live /\ Observing(1) < MaxObserved
    /\ Commit(one(Cur, 1, q, type, UserFn(g)), Op("one", 1))

\* p.on(q, type, fn) by any component that observes no other yet
ObserveEach ==
  \E p \in Live : \E q \in Live \ {p}, type \in UserTypes, g \in Fns :
    /\ Observing(p) < 1
    /\ Commit(on(Cur, p, q, type, UserFn(g)), Op("on", p))

\* p.off(q, type, fn) of the first component
ObserveOff ==
  \E q \in Live \ {1}, type \in ObsTypes, g \in Fns :
    /\ 1 \in Live
    /\ Commit(off(Cur, 1, q, type, g), Op("off", 1))

\* c.trigger(type)
Trigger ==
  \E c \in Live, type \in UserTypes :
    Commit(trigger(Cur, c, type), Op("trigger", c))

\* c.setTimeout(fn, delay) and c.setInterval(fn, delay)
SetTimeout ==
  \E c \in Live :
    /\ Len(timers) < MaxTimers
    /\ Commit(setTimeout(Cur, c, "user", 0), Op("setTimeout", c))

SetInterval ==
  \E c \in Live :
    /\ Len(timers) < MaxTimers
    /\ Commit(setInterval(Cur, c, "user", 0), Op("setInterval", c))

\* c.clearTimeout(id) and c.clearInterval(id), with an id the caller was given
ClearTimeout ==
  \E id \in DOMAIN timers :
    /\ timers[id].cb = "user" /\ timers[id].kind = "timeout"
    /\ timers[id].owner \in Live
    /\ Commit(clearTimeout(Cur, timers[id].owner, id),
              Op("clearTimeout", timers[id].owner))

ClearInterval ==
  \E id \in DOMAIN timers :
    /\ timers[id].cb = "user" /\ timers[id].kind = "interval"
    /\ timers[id].owner \in Live
    /\ Commit(clearInterval(Cur, timers[id].owner, id),
              Op("clearInterval", timers[id].owner))

\* the function a timer was created with, called by the window
TimerCallback(s, id) ==
  LET tm == s.timers[id]
      s1 == [s EXCEPT !.timers[id].n = @ + 1,
                      !.timers[id].st = IF tm.kind = "timeout" THEN "done" ELSE @]
  IN CASE tm.cb = "user" ->
            Log(s1, Entry("timer", tm.owner, tm.owner, NoGuid, tm.kind, id))
       [] tm.cb = "report" ->
            Log(s1, Entry("report", tm.owner, s.player_[tm.owner], NoGuid, tm.kind, id))
       [] tm.cb = "ready" -> RunReady(s1, tm.owner, tm.r)
       [] tm.cb = "drain" -> ReadyDrain(s1, tm.owner)

\* a later turn of the event loop: the window runs pending timer `id`
FireTimer(id) ==
  /\ id \in DOMAIN timers
  /\ timers[id].st = "pending"
  /\ timers[id].n < MaxFire
  /\ Commit(TimerCallback(Cur, id), Op("fire:" \o timers[id].cb, timers[id].owner))

Fire == \E id \in 1..MaxTimers : FireTimer(id)

\* c.ready(fn) and c.triggerReady()
Ready ==
  \E c \in Live :
    /\ Len(regs) < MaxRegs
    /\ isReady_[c] => Len(timers) + Reserved < MaxTimers
    /\ LET s == NewReg(Cur, c)
       IN Commit(ready(s, c, Len(s.regs)), Op("ready", c))

\* c.ready(fn) with a callback fn that calls this.ready(fn2)
ReadyNested ==
  \E c \in Live :
    /\ Len(regs) + 1 < MaxRegs
    /\ Len(timers) + Reserved + (IF isReady_[c] THEN 1 ELSE 0) < MaxTimers
    /\ Commit(ready(NewNested(Cur, c), c, Len(regs) + 1), Op("ready", c))

TriggerReady ==
  \E c \in Live :
    /\ Len(timers) + Reserved < MaxTimers
    /\ Commit(triggerReady(Cur, c), Op("triggerReady", c))

\* c.emitTapEvents(), called once (as the Button constructor does)
EmitTapEvents ==
  \E c \in Live :
    /\ tap[c].owner = NoComp
    /\ Commit(emitTapEvents(Cur, c), Op("emitTapEvents", c))

\* The browser delivers a touch event to the element the gesture began on, an
\* element with touch listeners: dt is the time since the last event, pt the
\* new page position of the first contact.  After the touchend that lifts the
\* last contact it owes the element a click, unless a listener called
\* preventDefault().  The gestures of a run are made on one element.
Points == {<<0, 0>>, <<6, 8>>, <<7, 8>>}
Ticks == {0, 1, 199}

Touchable == {c \in Live : handlers[c]["touchstart"] # <<>>}

CountOf(log, e) == Cardinality({i \in DOMAIN log : log[i].e = e})
TapsIn(log) == Cardinality({i \in DOMAIN log : log[i].e = "emit" /\ log[i].ty = "tap"})

Deliver(type, tch) ==
  LET Gesture(s1) ==
        [s1 EXCEPT !.touch.taps = @ + TapsIn(s1.turn),
                   !.touch.hc = @ + CountOf(s1.turn, "handleClick"),
                   !.touch.click = /\ type = "touchend" /\ tch.down = 0
                                   /\ CountOf(s1.turn, "preventDefault") = 0]
  IN Commit(Gesture(trigger([Cur EXCEPT !.touch = [tch EXCEPT !.events = @ + 1]],
                            tch.target, type)),
            Op(type, tch.target))

CanTouch == touch.target \in Touchable /\ touch.events < MaxEvents

TouchStartAt(pt, dt, c) ==
    /\ touch.events < MaxEvents /\ touch.down < MaxDown /\ Len(timers) < MaxTimers
    /\ touch.target # NoComp => c = touch.target
    /\ Deliver("touchstart",
         IF touch.down = 0
         THEN [touch EXCEPT !.now = @ + dt, !.down = 1, !.touches = 1,
                            !.x = pt[1], !.y = pt[2],
                            !.single = TRUE, !.t0 = touch.now + dt,
                            !.x0 = pt[1], !.y0 = pt[2], !.within = TRUE,
                            !.multi = FALSE, !.target = c, !.cancelled = FALSE,
                            !.held = TRUE, !.taps = 0, !.hc = 0, !.click = FALSE]
         ELSE [touch EXCEPT !.now = @ + dt, !.down = @ + 1,
                            !.touches = touch.down + 1,
                            !.single = FALSE, !.multi = TRUE, !.held = TRUE])

TouchStart == \E pt \in Points, dt \in Ticks, c \in Touchable : TouchStartAt(pt, dt, c)

Far(pt) ==
  (pt[1] - touch.x0) * (pt[1] - touch.x0) + (pt[2] - touch.y0) * (pt[2] - touch.y0) > 100

TouchMoveAt(pt, dt) ==
    /\ CanTouch /\ touch.down >= 1
    /\ Deliver("touchmove",
         [touch EXCEPT !.now = @ + dt, !.touches = touch.down,
                       !.x = pt[1], !.y = pt[2],
                       !.single = @ /\ touch.down = 1,
                       !.within = @ /\ ~Far(pt),
                       !.cancelled = @ \/ touch.down > 1 \/ Far(pt)])

TouchMove == \E pt \in Points, dt \in Ticks : TouchMoveAt(pt, dt)

TouchLeave ==
  \E dt \in Ticks :
    /\ CanTouch /\ touch.down >= 1
    /\ Deliver("touchleave",
         [touch EXCEPT !.now = @ + dt, !.touches = touch.down, !.single = FALSE,
                       !.cancelled = TRUE])

TouchCancelAt(dt) ==
    /\ CanTouch /\ touch.down >= 1
    /\ Deliver("touchcancel",
         [touch EXCEPT !.now = @ + dt, !.down = @ - 1, !.touches = touch.down - 1,
                       !.single = FALSE, !.cancelled = TRUE, !.held = FALSE])

TouchCancel == \E dt \in Ticks : TouchCancelAt(dt)

TouchEndAt(dt) ==
    /\ CanTouch /\ touch.down >= 1
    /\ Deliver("touchend",
         [touch EXCEPT !.now = @ + dt, !.down = @ - 1, !.touches = touch.down - 1,
                       !.held = FALSE])

TouchEnd == \E dt \in Ticks : TouchEndAt(dt)

\* The same touch events at one place and one time, for listeners that read
\* neither the position nor the clock.
Press == \E c \in Touchable : TouchStartAt(<<0, 0>>, 0, c)
Slide == TouchMoveAt(<<0, 0>>, 0)
Abort == TouchCancelAt(0)
Release == TouchEndAt(0)

\* new Player(...): the one player of the page, constructed without a player
ConstructPlayer ==
  /\ Unmade # {}
  /\ \A c \in made : class_[c] # "Player"
  /\ Commit(New(Cur, "Player", NextComp, NoComp, Options(NoName), 0),
            Op("new", NextComp))

\* new Button(player, options), with the player or nothing for player
ConstructButton ==
  /\ Unmade # {}
  /\ \E player \in {c \in Live : class_[c] = "Player"} \cup {NoComp} :
       Commit(New(Cur, "Button", NextComp, player, Options(NoName), 0),
              Op("new", NextComp))

\* parent.addChild('button')
AddChildButton ==
  /\ Unmade # {}
  /\ \E p \in Live :
       /\ Len(children_[p]) < MaxKids
       /\ Commit(addChild(Cur, p, NextComp, "button", "object"), Op("addChild", p))

\* parent.addChild(name, options) with a name that may not be registered and
\* options that may name the class
AddChildTyped ==
  /\ Unmade # {}
  /\ \E p \in Live, name \in {"w", "X"}, options \in {"object", "W", "Component"} :
       /\ Len(children_[p]) < MaxKids
       /\ Commit(addChild(Cur, p, NextComp, name, options), Op("addChild", p))

\* Component.registerComponent('W', ...) and window.videojs.W = ...
RegisterComponent ==
  Commit(registerComponent(Cur, "W", "Component"), Op("registerComponent", NoComp))

SetLegacy ==
  Commit([Cur EXCEPT !.videojs["W"] = "Component"], Op("legacy", NoComp))

Buttons == {c \in Live : class_[c] = "Button"}

\* A click on the element of a button: the click the browser owes a touch
\* gesture, or a pointer click when it owes none.
Click ==
  \E c \in Buttons :
    /\ touch.events < MaxEvents
    /\ touch.click => c = touch.target
    /\ LET s == [Cur EXCEPT !.touch.events = @ + 1, !.touch.click = FALSE]
           s1 == trigger(s, c, "click")
       IN Commit([s1 EXCEPT !.touch.hc = IF touch.click
                                         THEN @ + CountOf(s1.turn, "handleClick")
                                         ELSE @],
                 Op(IF touch.click THEN "click:touch" ELSE "click", c))

\* The browser moves the focus to the element of a button (or repeats the
\* event on the button that has it): one element has the focus at a time.
Focus ==
  \E c \in Buttons :
    /\ Len(document) < MaxFocus
    /\ \A d \in focused \ {c} : d \notin Live
    /\ Commit(trigger([Cur EXCEPT !.focused = @ \cup {c}], c, "focus"), Op("focus", c))

\* The button that has the focus loses it.
Blur ==
  \E c \in Buttons \cap focused :
    Commit(trigger([Cur EXCEPT !.focused = @ \ {c}], c, "blur"), Op("blur", c))

\* The dispatcher of the document calls a copy of its keydown listeners.
RECURSIVE DocumentDispatch(_, _, _, _)
DocumentDispatch(s, handlersCopy, m, which) ==
  IF s.thrown \/ m > Len(handlersCopy) THEN s
  ELSE DocumentDispatch(handleKeyPress(s, handlersCopy[m].o, which),
                        handlersCopy, m + 1, which)

\* A key goes down: Enter, Space or Escape.
Keys == {13, 32, 27}

KeyDown ==
  \E which \in Keys :
    Commit(DocumentDispatch(
             Log(Cur, Entry("keydown", NoComp, NoComp, NoGuid, "keydown", which)),
             document, 1, which),
           Op("keydown", NoComp))

\* button.controlText(text) and button.controlText()
ControlText ==
  \E c \in Buttons, text \in Texts :
    Commit(controlText(Log(Cur, Entry("controlText", c, c, NoGuid, text, 0)), c, text),
           Op("controlText", c))

ControlTextGet ==
  \E c \in Buttons :
    Commit(controlText(Cur, c, ""), Op("controlText()", c))

\* The player is given a language and dictionaries.
SetLanguage ==
  \E code \in Codes \cup {""}, langs \in Languages :
    /\ \E c \in made : class_[c] = "Player"
    /\ Commit([Cur EXCEPT !.language = code, !.languages = langs],
              Op("language", NoComp))

\* Components that were constructed without an element.
Bare == {c \in made : el_[c] = "undefined"}

\* new Component(player, {createEl: false})
ConstructBare ==
  /\ Unmade # {}
  /\ Commit(New(Cur, "Component", NextComp, NoComp,
                [Options(NoName) EXCEPT !.createEl = FALSE], 0),
            Op("new", NextComp))

\* parent.addChild(instance) with an instance that has no element
AddChildBare ==
  \E p \in Live, c \in Bare :
    /\ Len(children_[p]) < MaxKids
    /\ Slots < MaxSlots
    /\ Commit(addChild(Cur, p, c, NoName, "object"), Op("addChild", p))

\* c.dispose() of a component that has no element
DisposeBare ==
  \E c \in Bare :
    Commit(dispose(Cur, c, 1), Op("dispose", c))

\* c.dispose()
Dispose ==
  \E c \in Live :
    Commit(dispose(Cur, c, 1), Op("dispose", c))

Next ==
  \/ Construct \/ ConstructReady \/ AddChildName \/ AddChildInstance \/ RemoveChild \/ RemoveChildName
  \/ OnLocal \/ OnObserved \/ OneObserved \/ OffObserved \/ OffLocal \/ Trigger
  \/ SetTimeout \/ SetInterval \/ ClearTimeout \/ ClearInterval \/ Fire
  \/ Ready \/ TriggerReady \/ Dispose
  \/ RemoveChildDisposed \/ RemoveChildNameDisposed \/ GetChildById \/ GetChild
  \/ ConstructDeclared \/ AddChildFalse
  \/ EmitTapEvents \/ TouchStart \/ TouchMove \/ TouchLeave \/ TouchCancel \/ TouchEnd
  \/ ConstructPlayer \/ ConstructButton \/ AddChildButton \/ AddChildTyped
  \/ RegisterComponent \/ SetLegacy \/ Click \/ Focus \/ Blur \/ KeyDown
  \/ ControlText \/ ControlTextGet \/ SetLanguage
  \/ ObserveOn \/ ObserveOne \/ ObserveOff \/ ObserveEach
  \/ Press \/ Slide \/ Abort \/ Release \/ OffDispose
  \/ ObserverTimeout \/ ObserverClear
  \/ ConstructBare \/ AddChildBare \/ DisposeBare \/ ReadyNested

Spec == Init /\ [][Next]_vars

\* The same machine, restricted to the operations a group of properties is about.
NextListeners ==
  \/ Construct \/ OnObserved \/ OneObserved \/ OffObserved \/ OffLocal
  \/ Trigger \/ Dispose

SpecListeners == Init /\ [][NextListeners]_vars

NextTimers ==
  \/ SetTimeout \/ SetInterval \/ ClearTimeout \/ ClearInterval \/ Fire
  \/ OffLocal \/ Dispose

SpecTimers == Init /\ [][NextTimers]_vars

NextTree ==
  \/ AddChildName \/ RemoveChild \/ RemoveChildName \/ OnLocal \/ OnObserved \/ Dispose

SpecTree == Init /\ [][NextTree]_vars

NextReady ==
  \/ ConstructReady \/ Ready \/ TriggerReady \/ Fire \/ OffLocal \/ Dispose

SpecReady == Init /\ [][NextReady]_vars

\* The child tree with lookups, on live and on disposed components.
NextLookup ==
  \/ AddChildName \/ RemoveChild \/ RemoveChildName
  \/ RemoveChildDisposed \/ RemoveChildNameDisposed \/ GetChildById \/ GetChild
  \/ Dispose

SpecLookup == Init /\ [][NextLookup]_vars

\* The child tree with children that are passed in as instances.
NextForest ==
  \/ AddChildName \/ AddChildInstance \/ RemoveChild \/ Dispose

SpecForest == Init /\ [][NextForest]_vars

\* Construction with declared children, from the state before any component.
NextDeclared ==
  \/ ConstructDeclared \/ AddChildFalse \/ AddChildName \/ Dispose

SpecDeclared == InitEmpty /\ [][NextDeclared]_vars

\* A component that emits tap events, and the touch screen.
NextTap ==
  \/ EmitTapEvents \/ TouchStart \/ TouchMove \/ TouchLeave \/ TouchCancel \/ TouchEnd

SpecTap == Init /\ [][NextTap]_vars

\* ready() and triggerReady() on one component, with an event loop that runs
\* every timer that stays pending.
NextLate ==
  \/ Ready \/ TriggerReady \/ Fire \/ OffLocal \/ Dispose

SpecLate == Init /\ [][NextLate]_vars

SpecLateFair == SpecLate /\ \A id \in 1..MaxTimers : WF_vars(FireTimer(id))

\* A button, the touch screen and the pointer.
NextButton ==
  \/ ConstructButton \/ TouchStart \/ TouchMove \/ TouchLeave \/ TouchCancel \/ TouchEnd
  \/ Click

SpecButton == Init /\ [][NextButton]_vars

\* Buttons, the focus and the keyboard.
NextKeys ==
  \/ ConstructButton \/ Focus \/ Blur \/ KeyDown \/ Dispose

SpecKeys == Init /\ [][NextKeys]_vars

\* The registry, and children added by names and class names.
NextRegistry ==
  \/ AddChildTyped \/ RegisterComponent \/ SetLegacy \/ Dispose

SpecRegistry == Init /\ [][NextRegistry]_vars

\* One component that observes two others, with the same handler.
NextObserved ==
  \/ Construct \/ ObserveOn \/ ObserveOne \/ ObserveOff \/ Trigger \/ Dispose

SpecObserved == Init /\ [][NextObserved]_vars

\* A player, components without a player, and the trees below them.
NextPlayers ==
  \/ ConstructPlayer \/ Construct \/ AddChildName \/ AddChildButton \/ RemoveChild
  \/ Dispose

SpecPlayers == InitEmpty /\ [][NextPlayers]_vars

\* A tree whose components have timers and listeners on other components.
NextBubble ==
  \/ AddChildName \/ ObserveEach \/ SetTimeout \/ Dispose

SpecBubble == Init /\ [][NextBubble]_vars

\* A player and its children, the touch screen and the timers of the window.
NextActivity ==
  \/ ConstructPlayer \/ AddChildName \/ Press \/ Slide \/ Abort \/ Release
  \/ Fire \/ OffDispose \/ Dispose

SpecActivity == InitEmpty /\ [][NextActivity]_vars

\* The player's languages and the control text of buttons.
NextText ==
  \/ ConstructPlayer \/ ConstructButton \/ SetLanguage \/ ControlText \/ ControlTextGet

SpecText == Init /\ [][NextText]_vars

\* A component with timers and listeners on other components, whose local
\* listeners are cleared before it is disposed.
NextCleanup ==
  \/ Construct \/ ObserverTimeout \/ ObserveOn \/ ObserverClear \/ Dispose

SpecCleanup == Init /\ [][NextCleanup]_vars

\* Components without an element, alone and as children.
NextBare ==
  \/ Construct \/ ConstructBare \/ AddChildName \/ AddChildBare \/ OnLocal
  \/ Dispose \/ DisposeBare

SpecBare == Init /\ [][NextBare]_vars

\* ready() and triggerReady(), with callbacks that register further callbacks.
NextDrain ==
  \/ Construct \/ Ready \/ ReadyNested \/ TriggerReady \/ Fire

SpecDrain == Init /\ [][NextDrain]_vars

\* The ready lifecycle of several components that may be disposed, with an
\* event loop that runs every timer that stays pending.
NextLife ==
  \/ ConstructReady \/ Ready \/ TriggerReady \/ Fire \/ Dispose

SpecLifeFair ==
  Init /\ [][NextLife]_vars /\ \A id \in 1..MaxTimers : WF_vars(FireTimer(id))

\* ================================================================ claims
Disposed(c) == el_[c] = "null"          \* c.dispose() has returned

\* the listeners attached to c's element for one type, as a set of positions
At(c, type) == DOMAIN handlers[c][type]

Reverse(seq) == [i \in 1..Len(seq) |-> seq[Len(seq) + 1 - i]]

\* C1: once P.dispose() has returned, no handler that P registered on another
\* component through P.on(target, type, h) or P.one(target, type, h) is still
\* attached to any target.
C1_DisposeRemovesObserved ==
  \A p \in made :
    Disposed(p) =>
      \A q \in Comp, type \in EvTypes :
        \A i \in At(q, type) :
          ~(handlers[q][type][i].o = p /\ handlers[q][type][i].t = q)

\* C2: when the target Q of P.on(Q, type, h) is disposed first, P holds no
\* dispose-triggered remover for Q afterwards and no removal is ever called on
\* the disposed Q; once both are disposed nothing of the registration is left.
C2_TargetFirstCleansObserver ==
  /\ \A q \in made :
       Disposed(q) =>
         \A p \in Comp :
           \A i \in At(p, "dispose") :
             ~(handlers[p]["dispose"][i].k = "remover" /\ handlers[p]["dispose"][i].t = q)
  /\ \A i \in DOMAIN turn : turn[i].e = "targetOff" => turn[i].n = 1
  /\ \A p \in made, q \in made :
       Disposed(p) /\ Disposed(q) => handlers[p] = NoHandlers /\ handlers[q] = NoHandlers

\* C3: a callback scheduled with c.setTimeout(fn, d) or c.setInterval(fn, d) is
\* never invoked once c.dispose() has run: no timer of a disposed component is
\* still pending, and no timer callback runs on a disposed component.
C3_NoTimerAfterDispose ==
  /\ \A id \in DOMAIN timers :
       timers[id].cb = "user" /\ Disposed(timers[id].owner) => timers[id].st # "pending"
  /\ \A i \in DOMAIN turn : turn[i].e = "timer" => ~Disposed(turn[i].c)

\* the children `c` was asked to dispose during the last step, in call order
DisposeOrder(c) ==
  LET Mine(e) == e.e = "disposeChild" /\ e.c = c
      calls == SelectSeq(turn, Mine)
  IN [i \in 1..Len(calls) |-> calls[i].o]

Times(x) == Cardinality({i \in DOMAIN turn : turn[i].e = "disposed" /\ turn[i].c = x})

\* C4: dispose() disposes every component that is in children() when it is
\* called, exactly once each, last added first, at every depth of the tree.
C4_DisposesChildrenInReverse ==
  op.name = "dispose" =>
    \A i \in DOMAIN snaps :
      snaps[i].k = "begin" =>
        /\ DisposeOrder(snaps[i].c) = Reverse(snaps[i].now.list)
        /\ \A j \in DOMAIN snaps[i].now.list : Times(snaps[i].now.list[j]) = 1

\* the snapshot taken when the dispose() call that handler entry i belongs to began
BeginOf(i) ==
  LET c == snaps[i].c
      b == CHOOSE b \in 1..(i - 1) :
             /\ snaps[b].k = "begin" /\ snaps[b].c = c
             /\ \A j \in (b + 1)..(i - 1) : ~(snaps[j].k = "begin" /\ snaps[j].c = c)
  IN snaps[b].now

HasBegin(i) == \E b \in 1..(i - 1) : snaps[b].k = "begin" /\ snaps[b].c = snaps[i].c

\* C5: the dispose handlers run before any teardown step of dispose(): each
\* one sees the children undisposed, the child containers populated, the local
\* listeners attached and the element mounted, exactly as they were when
\* dispose() was called; and a removal this component makes on a foreign
\* target comes before its own element is detached.
C5_HandlersBeforeTeardown ==
  /\ \A i \in DOMAIN snaps :
       snaps[i].k # "begin" =>
         /\ HasBegin(i)
         /\ snaps[i].now = BeginOf(i)
         /\ snaps[i].now.el = "node" /\ ~snaps[i].now.nulled
  /\ \A i \in DOMAIN turn, j \in DOMAIN turn :
       turn[i].e = "targetOff" /\ turn[j].e = "disposed" /\ turn[j].c = turn[i].o
         => i < j

\* C5 happens: in one dispose() a remover ran on a mounted component and a
\* user's dispose handler ran on a component that has children.
C5_Witness ==
  /\ op.name = "dispose" /\ ~threw
  /\ \E i \in DOMAIN snaps, j \in DOMAIN snaps :
       /\ snaps[i].k = "remover" /\ snaps[i].now.par # NoComp
       /\ snaps[j].k = "fn" /\ Len(snaps[j].now.list) > 0
  /\ \E i \in DOMAIN turn : turn[i].e = "targetOff"

\* C6: after dispose() has returned the component has no children in its list
\* or its two indexes, no listener on its element, an element that is detached
\* from its parent node, and el() is null.
C6_DisposedIsEmpty ==
  \A c \in made :
    Disposed(c) =>
      /\ childrenNull[c] /\ children_[c] = <<>>
      /\ childIndex_[c] = NoIndex /\ childNameIndex_[c] = NoNameIndex
      /\ handlers[c] = NoHandlers
      /\ parentNode[c] = NoComp

\* C6 happens: a mounted component with a child and a local listener was disposed.
C6_Witness ==
  /\ op.name = "dispose" /\ ~threw /\ Disposed(op.c)
  /\ snaps # <<>> /\ snaps[1].c = op.c
  /\ Len(snaps[1].now.list) > 0
  /\ snaps[1].now.par # NoComp
  /\ \E ty \in EvTypes \ {"dispose"} : Len(snaps[1].now.local[ty]) > 0

\* a ready callback was called, or the ready event emitted, at position i of turn
IsReadyCall(i) == turn[i].e = "cb"
IsReadyEmit(i) == turn[i].e = "emit" /\ turn[i].ty = "ready"

\* C7: the ready state is one-way: a component is Pending when its constructor
\* returns, and construction neither runs a ready callback nor emits ready; it
\* becomes Ready only by its own triggerReady(); once Ready it stays Ready
\* whatever operation follows.
C7_ReadyIsOneWay ==
  /\ \A c \in Comp : ~isReady_[c]
  /\ [][\A c \in Comp :
          /\ isReady_[c] => isReady_'[c]
          /\ ~isReady_[c] /\ isReady_'[c] => op' = Op("triggerReady", c)
          /\ op' = Op("new", c) =>
               /\ ~isReady_'[c]
               /\ \A i \in DOMAIN turn' : turn'[i].e \notin {"cb", "emit"}]_vars

\* C7 happens: a component made Ready has since been disposed and is still
\* Ready, while another one, constructed with a ready callback, is Pending.
C7_Witness ==
  \E c \in made, d \in made :
    /\ isReady_[c] /\ Disposed(c)
    /\ ~isReady_[d] /\ readyQueue_[d] # <<>>

\* C8: no ready callback is called and no ready event is emitted inside
\* ready(fn) or triggerReady() (or any other call made by the program): they
\* happen only in a turn that the event loop starts for a timer.
C8_ReadyNeverInline ==
  \A i \in DOMAIN turn :
    IsReadyCall(i) \/ IsReadyEmit(i) => op.name \in {"fire:ready", "fire:drain"}

\* C8 happens: ready(fn) has just returned on a component that was already
\* Ready, and fn has not run: it waits in a pending timer.
C8_Witness ==
  /\ op.name = "ready" /\ isReady_[op.c] /\ turn = <<>>
  /\ \E id \in DOMAIN timers :
       /\ timers[id].cb = "ready" /\ timers[id].owner = op.c
       /\ timers[id].st = "pending" /\ regs[timers[id].r].n = 0

\* C9: a callback passed to ready(fn) after triggerReady() was called runs at
\* most once, only in a later turn of its own, and does run once unless the
\* component is disposed first.
C9_LateReadyRunsOnce ==
  /\ [](\A r \in DOMAIN regs : regs[r].late => regs[r].n <= 1)
  /\ [](\A i \in DOMAIN turn :
          IsReadyCall(i) /\ regs[turn[i].n].late => op.name = "fire:ready")
  /\ \A r \in 1..MaxRegs :
       (r \in DOMAIN regs /\ regs[r].late)
         ~> (r \in DOMAIN regs /\ (regs[r].n = 1 \/ Disposed(regs[r].c)))

\* C9 happens: a callback passed to ready() after triggerReady(), before the
\* queue was drained, has just run on a component that is not disposed.
C9_Witness ==
  /\ op.name = "fire:ready" /\ ~Disposed(op.c)
  /\ \E r \in DOMAIN regs : regs[r].late /\ regs[r].c = op.c /\ regs[r].n = 1
  /\ \E id \in DOMAIN timers :
       /\ timers[id].cb = "drain" /\ timers[id].owner = op.c
       /\ timers[id].st = "pending"

\* C10: in the turn that drains the ready queue the callbacks queued before
\* triggerReady() are called in the order they were queued, each of them has
\* then run exactly once, and the ready event is emitted in that same turn,
\* after all of them.
C10_DrainInOrderThenReady ==
  op.name = "fire:drain" =>
    /\ \A i \in DOMAIN turn, j \in DOMAIN turn :
         IsReadyCall(i) /\ IsReadyCall(j) /\ i < j => turn[i].n < turn[j].n
    /\ \A r \in DOMAIN regs : regs[r].c = op.c /\ ~regs[r].late => regs[r].n = 1
    /\ \E j \in DOMAIN turn :
         /\ IsReadyEmit(j) /\ turn[j].c = op.c
         /\ \A i \in DOMAIN turn : IsReadyCall(i) => i < j

\* a timer that ready() or triggerReady() created
IsReadyTimer(id) == timers[id].cb \in {"ready", "drain"}

\* the dispose listeners of c hold the cancellation hook of timer id
Hooked(c, id) ==
  \E i \in At(c, "dispose") : handlers[c]["dispose"][i].g = TimeoutGuid(id)

\* C11 as stated: disposing a component cancels no ready callback and no
\* ready-queue drain that was scheduled before it.
C11_DisposeLeavesReadyScheduled ==
  \A id \in DOMAIN timers : IsReadyTimer(id) => timers[id].st # "cleared"

\* C11 amended: dispose() cancels a scheduled ready callback or drain exactly
\* when the cancellation hook the timer wrapper registered for it is still
\* among the component's dispose listeners; one whose hook was removed stays
\* scheduled after dispose().
C11_DisposeCancelsHookedReady ==
  [][\A c \in Comp :
       op' = Op("dispose", c) /\ ~threw' =>
         \A id \in DOMAIN timers :
           IsReadyTimer(id) /\ timers[id].owner = c /\ timers[id].st = "pending" =>
             /\ Hooked(c, id) => timers'[id].st = "cleared"
             /\ ~Hooked(c, id) => timers'[id].st = "pending"]_vars

\* C11 happens: a component was disposed with two ready timers scheduled; the
\* one that kept its hook is cancelled, the other is still scheduled.
C11_Witness ==
  /\ op.name = "dispose" /\ Disposed(op.c)
  /\ \E id \in DOMAIN timers, jd \in DOMAIN timers :
       /\ IsReadyTimer(id) /\ timers[id].owner = op.c /\ timers[id].st = "cleared"
       /\ IsReadyTimer(jd) /\ timers[jd].owner = op.c /\ timers[jd].st = "pending"

InList(seq, x) == \E i \in DOMAIN seq : seq[i] = x
Count(seq, x) == Cardinality({i \in DOMAIN seq : seq[i] = x})

\* the component state of the program (everything but the history)
program == <<made, el_, childrenNull, children_, childIndex_, childNameIndex_,
             name_, options_, parentNode, handlers, isReady_, readyQueue_, regs,
             timers, tap, player_, class_, components_, videojs, document,
             controlText_, controlTextEl_, language, languages, touchHolding>>

\* C12: right after c = p.addChild(name), getChildById(c.id()) and
\* getChild(name) return c; and when both lookups return c, which is once in
\* children(), then after p.removeChild(c) or p.removeChild(name) both lookups
\* return nothing and c is not in children().
C12_AddThenRemoveLookups ==
  [][\A p \in Comp, c \in Comp, n \in Names :
       /\ op' = Op("addChild", p) /\ ~threw' /\ turn'[1].o = c /\ turn'[1].ty = n =>
            /\ getChildById(Cur, p, c)' = c
            /\ getChild(Cur, p, n)' = c
            /\ InList(children_'[p], c)
       /\ /\ op' = Op("removeChild", p) /\ Len(turn') > 0 /\ turn'[1].o = c
          /\ ~childrenNull[p] /\ Count(children_[p], c) = 1
          /\ getChildById(Cur, p, c) = c /\ name_[c] = n /\ getChild(Cur, p, n) = c
          => /\ getChildById(Cur, p, c)' = NoComp
             /\ getChild(Cur, p, n)' = NoComp
             /\ ~InList(children_'[p], c)
             /\ ~threw']_vars

\* C12 happens: a child that was added by name has just been removed by name.
C12_Witness ==
  /\ op.name = "removeChild" /\ ~threw /\ Len(turn) > 0
  /\ turn[1].ty # NoName /\ turn[1].n = 1
  /\ getChild(Cur, op.c, turn[1].ty) = NoComp
  /\ Len(children_[op.c]) > 0

\* C13: in an undisposed component the two indexes agree with children(): a
\* lookup returns only a current child, and a current child with id i (name n)
\* is found by getChildById(i) (getChild(n) finds a current child named n).
C13_IndexesMatchChildren ==
  \A p \in made :
    ~childrenNull[p] =>
      /\ \A id \in Comp :
           getChildById(Cur, p, id) # NoComp =>
             InList(children_[p], getChildById(Cur, p, id))
      /\ \A n \in Names :
           getChild(Cur, p, n) # NoComp => InList(children_[p], getChild(Cur, p, n))
      /\ \A i \in DOMAIN children_[p] :
           LET c == children_[p][i]
           IN /\ getChildById(Cur, p, c) = c
              /\ name_[c] # NoName =>
                   /\ getChild(Cur, p, name_[c]) # NoComp
                   /\ InList(children_[p], getChild(Cur, p, name_[c]))
                   /\ name_[getChild(Cur, p, name_[c])] = name_[c]

\* C14: removeChild(x) raises nothing and changes nothing when x is not a
\* current child, or when the component has been disposed.
C14_RemoveChildNoOp ==
  [][\A p \in Comp :
       (/\ op' = Op("removeChild", p)
        /\ Disposed(p) \/ (Len(turn') > 0 /\ turn'[1].n = 0))
       => ~threw' /\ UNCHANGED program]_vars

\* C15: getChildById(k) and getChild(k) never throw, and return nothing when
\* no current child has the id or the name k.
C15_LookupNeverThrows ==
  /\ op.name \in {"getChildById", "getChild"} => ~threw /\ Len(turn) = 1
  /\ op.name = "getChildById" /\ ~threw =>
       \A id \in Comp :
         turn[1].ty = ToString(id) /\ ~InList(children_[op.c], id) => turn[1].o = NoComp
  /\ /\ op.name = "getChild" /\ ~threw
     /\ \A i \in DOMAIN children_[op.c] : name_[children_[op.c][i]] # turn[1].ty
     => turn[1].o = NoComp

\* the components below c in the children lists, to a depth of `fuel`
RECURSIVE Below(_, _)
Below(c, fuel) ==
  IF fuel = 0 THEN {}
  ELSE LET kids == {children_[c][i] : i \in DOMAIN children_[c]}
       IN kids \cup UNION {Below(k, fuel - 1) : k \in kids}

\* C18: the children lists form a strict forest: no component is twice in one
\* list or in the lists of two components, and none is its own descendant.
C18_ChildrenAreAForest ==
  /\ \A p \in Comp, c \in Comp : Count(children_[p], c) <= 1
  /\ \A p \in Comp, q \in Comp, c \in Comp :
       InList(children_[p], c) /\ InList(children_[q], c) => p = q
  /\ \A c \in Comp : c \notin Below(c, NComp)

\* the last step was p.addChild(name, false)
AddedWithFalse(p, n) ==
  /\ op' = Op("addChild", p) /\ Len(turn') > 0
  /\ turn'[1].e = "addChild" /\ turn'[1].n = 1 /\ turn'[1].ty = n

\* C16 as stated: addChild(name, false) constructs nothing, leaves children()
\* and both indexes as they were and raises nothing.
C16_AddChildFalseSkips ==
  [][\A p \in Comp :
       (\E n \in Names : AddedWithFalse(p, n)) => ~threw' /\ UNCHANGED program]_vars

\* C16 amended: addChild(name, false) takes false for empty options: it
\* constructs the child, appends it to children() and indexes it by id and by
\* name; a child is skipped only when it is declared and its resolved options
\* are false, and then construction makes one component for each declared
\* child that is not skipped and none for the others.
C16_FalseSkipsOnlyDeclared ==
  [][\A p \in Comp :
       /\ \A n \in Names :
            AddedWithFalse(p, n) =>
              /\ ~threw'
              /\ \E c \in Comp \ made :
                   /\ made' = made \cup {c}
                   /\ children_'[p] = Append(children_[p], c)
                   /\ getChildById(Cur, p, c)' = c
                   /\ getChild(Cur, p, n)' = c
       /\ op' = Op("new", p) =>
            /\ ~threw' /\ made' = made \cup {p} \cup {children_'[p][i] : i \in DOMAIN children_'[p]}
            /\ Cardinality(made' \ made) = 1 + Cardinality(Wanted(options_'[p]))
            /\ Cardinality({i \in DOMAIN turn' : turn'[i].e = "skip"})
                 = Len(options_'[p].children) - Cardinality(Wanted(options_'[p]))]_vars

\* C16 happens: addChild(name, false) has just constructed and added a child of
\* a component that was itself constructed with a declared child skipped.
C16_Witness ==
  /\ op.name = "addChild" /\ ~threw /\ turn[1].n = 1
  /\ InList(children_[op.c], turn[1].o)
  /\ Cardinality(Wanted(options_[op.c])) < Len(options_[op.c].children)

\* the options handleAdd ends up with for a declared entry
ResolvedOpts(o, e) == IF o.over[e.name] # "undefined" THEN o.over[e.name] ELSE e.opts

\* the names of the declared children that are not skipped, in declared order
ExpectedNames(o) ==
  LET Kept(e) == ResolvedOpts(o, e) # "false"
      kept == SelectSeq(o.children, Kept)
  IN [i \in 1..Len(kept) |-> kept[i].name]

\* C17: when a constructor returns, children() holds one new component for
\* each declared child whose resolved options are not false, in declared
\* order, where a top-level entry of the parent's options for the child's name
\* replaces the nested options of the declaration.
C17_InitChildrenResolves ==
  op.name = "new" =>
    LET p == op.c
        kids == children_[p]
    IN /\ ~threw
       /\ [i \in 1..Len(kids) |-> name_[kids[i]]] = ExpectedNames(options_[p])
       /\ \A i \in DOMAIN kids, j \in DOMAIN kids : kids[i] = kids[j] => i = j
       /\ \A i \in DOMAIN kids :
            /\ kids[i] \in Live /\ kids[i] # p
            /\ getChildById(Cur, p, kids[i]) = kids[i]
            /\ parentNode[kids[i]] = p

\* C17 happens: an array declaration of three names, the middle one switched
\* off by a top-level false, gave two children in declared order.
C17_Witness ==
  /\ op.name = "new" /\ ~threw
  /\ options_[op.c].form = "array" /\ Len(options_[op.c].children) = 3
  /\ options_[op.c].over[options_[op.c].children[2].name] = "false"
  /\ Len(children_[op.c]) = 2
  /\ name_[children_[op.c][1]] # name_[children_[op.c][2]]

\* the tap events emitted, and the preventDefault() calls made, in the last step
Taps == Cardinality({i \in DOMAIN turn : turn[i].e = "emit" /\ turn[i].ty = "tap"})
Prevented == \E i \in DOMAIN turn : turn[i].e = "preventDefault"

\* C19: at the touchend of a gesture of one contact that came down and only
\* moved (no touchleave, no touchcancel, no second contact), exactly one tap
\* is emitted and preventDefault is called if every move stayed within
\* distance 10 of the start (dx*dx + dy*dy <= 100) and the touch lasted less
\* than 200 ms; otherwise no tap is emitted and preventDefault is not called.
C19_SingleTouchTap ==
  op.name = "touchend" /\ touch.single =>
    IF touch.within /\ touch.now - touch.t0 < 200
    THEN Taps = 1 /\ Prevented
    ELSE Taps = 0 /\ ~Prevented

\* C19 happens: a touch that moved to distance exactly 10 and lasted 199 ms
\* has just ended in a tap.
C19_Witness ==
  /\ op.name = "touchend" /\ touch.single /\ Taps = 1
  /\ touch.now - touch.t0 = 199
  /\ (touch.x - touch.x0) * (touch.x - touch.x0)
       + (touch.y - touch.y0) * (touch.y - touch.y0) = 100

\* C20: a touchend of a sequence in which a second contact was down at any
\* time since the first touchstart emits no tap.
C20_SecondContactNoTap ==
  op.name = "touchend" /\ touch.multi => Taps = 0

\* the tap and click events emitted on c, and the handleClick calls with
\* receiver c, in the last step
Activations(c) ==
  Cardinality({i \in DOMAIN turn :
                 turn[i].e = "emit" /\ turn[i].c = c /\ turn[i].ty \in {"tap", "click"}})
HandleClicks(c) ==
  Cardinality({i \in DOMAIN turn : turn[i].e = "handleClick" /\ turn[i].o = c})

\* C21: every tap and every click event on the element of a button calls
\* handleClick once with the button as receiver; a touch gesture that has
\* emitted a tap has led to exactly one handleClick call when it is over (the
\* browser owes it no click), and a pointer click leads to exactly one.
C21_TapAndClickActivateOnce ==
  /\ \A b \in made : class_[b] = "Button" => HandleClicks(b) = Activations(b)
  /\ op.name = "click" => HandleClicks(op.c) = 1
  /\ /\ touch.target \in made /\ class_[touch.target] = "Button"
     /\ touch.down = 0 /\ ~touch.click /\ touch.taps >= 1
     => touch.hc = 1

\* the key of the keydown event of the last step, and whether a listener
\* suppressed its default action
KeyOf == turn[1].n
KeyPrevented == \E i \in DOMAIN turn : turn[i].e = "preventDefault"
KeyListeners(b) == {i \in DOMAIN document : document[i].o = b}

\* C22: an undisposed button has a keydown listener on the document exactly
\* between a focus event and the next blur; a keydown with code 32 or 13 then
\* calls its handleClick and suppresses the default action, and a keydown with
\* another code does neither; a button that has had a blur since its last
\* focus event (or was never focused) gets no handleClick call from any
\* keydown, whatever number of focus events came before the blur.
C22_KeyListenerWhileFocused ==
  /\ \A b \in Buttons : b \in focused <=> KeyListeners(b) # {}
  /\ op.name = "keydown" =>
       /\ \A b \in Buttons \cap focused :
            IF KeyOf \in {32, 13}
            THEN HandleClicks(b) >= 1 /\ KeyPrevented
            ELSE HandleClicks(b) = 0
       /\ KeyOf \notin {32, 13} => ~KeyPrevented /\ Len(turn) = 1
       /\ \A b \in made \ focused : HandleClicks(b) = 0

\* C22 happens: Enter goes down while a button that got two focus events has
\* the focus and another button is without it.
C22_Witness ==
  /\ op.name = "keydown" /\ KeyOf = 13 /\ KeyPrevented
  /\ \E b \in Buttons \cap focused, d \in Buttons \ focused :
       HandleClicks(b) = 2 /\ HandleClicks(d) = 0

\* the step was p.addChild(name, options) with a name, and n is the type name
\* it resolves: options.componentClass, else the title-cased name
AddsByType(p, n) ==
  /\ op' = Op("addChild", p) /\ Len(turn') > 0
  /\ turn'[1].e = "addChild" /\ turn'[1].ty # NoName
  /\ n = IF turn'[1].g # NoGuid THEN turn'[1].g ELSE toTitleCase[turn'[1].ty]

\* C23: addChild(name, options) whose resolved type name is neither in the
\* registry nor in the legacy namespace raises an error, constructs nothing
\* and leaves the parent's children(), its two indexes and the content of its
\* element as they were.
C23_UnknownTypeThrows ==
  [][\A p \in Comp, n \in ClassNames :
       AddsByType(p, n) /\ components_[n] = "undefined" /\ videojs[n] = "undefined"
       => /\ threw'
          /\ made' = made
          /\ children_'[p] = children_[p]
          /\ childIndex_'[p] = childIndex_[p]
          /\ childNameIndex_'[p] = childNameIndex_[p]
          /\ parentNode' = parentNode]_vars

\* C23 happens: addChild('w') has just raised on a parent that has a child,
\* added under a type name that is registered.
C23_Witness ==
  /\ op.name = "addChild" /\ threw /\ turn[1].ty = "w" /\ turn[1].g = NoGuid
  /\ components_["W"] = "undefined" /\ videojs["W"] = "undefined"
  /\ Len(children_[op.c]) > 0

\* the one() registrations of handler g that p holds on q for a type: the
\* wrappers attached to q's element
OneShots(p, q, type, g) ==
  {i \in DOMAIN handlers[q][type] :
     /\ handlers[q][type][i].k = "newFunc" /\ handlers[q][type][i].o = p
     /\ handlers[q][type][i].g = g}

\* the calls of the last step to a handler registered with p.one(q, type, g)
OneShotCalls(p, q, type, g) ==
  {i \in DOMAIN turn :
     /\ turn[i].e = "call" /\ turn[i].n = 1 /\ turn[i].c = q /\ turn[i].o = p
     /\ turn[i].ty = type /\ turn[i].g = g}

\* what is left on q and on p of the registrations of g by p on q for a type
LeftOf(p, q, type, g) ==
  {i \in DOMAIN handlers[q][type] :
     handlers[q][type][i].o = p /\ handlers[q][type][i].g = g}
  \cup {i \in DOMAIN handlers[q]["dispose"] :
          /\ handlers[q]["dispose"][i].k = "clean" /\ handlers[q]["dispose"][i].o = p
          /\ handlers[q]["dispose"][i].g = g /\ handlers[q]["dispose"][i].e = type}
  \cup {i \in DOMAIN handlers[p]["dispose"] :
          /\ handlers[p]["dispose"][i].k = "remover" /\ handlers[p]["dispose"][i].t = q
          /\ handlers[p]["dispose"][i].g = g /\ handlers[p]["dispose"][i].e = type}

\* C24: a handler registered with P.one(Q, type, h) is called at most once for
\* each registration; after a call Q holds no listener and no cleanup
\* listener, and P no dispose remover, of that registration; and it is never
\* called once dispose() of P or of Q has returned.
C24_OneFiresOnce ==
  [][\A p \in Comp, q \in Comp, type \in ObsTypes, g \in Fns :
       /\ Cardinality(OneShotCalls(p, q, type, g)') <= Cardinality(OneShots(p, q, type, g))
       /\ OneShotCalls(p, q, type, g)' # {} =>
            /\ LeftOf(p, q, type, g)' = {}
            /\ ~Disposed(p) /\ ~Disposed(q)]_vars

\* C24 happens: a handler registered once with one() has just been called,
\* while its observer still listens to a third component.
C24_Witness ==
  /\ op.name = "trigger" /\ ~threw
  /\ \E p \in Live, q \in Live, r \in Live, g \in Fns :
       /\ r # q
       /\ Cardinality(OneShotCalls(p, q, "a", g)) = 1
       /\ handlers[q]["a"] = <<>>
       /\ \E i \in DOMAIN handlers[r]["a"] : handlers[r]["a"][i].o = p

\* p holds the dispose remover of the registration of g on q for a type
HasRemover(p, q, type, g) ==
  \E j \in At(p, "dispose") :
    /\ handlers[p]["dispose"][j].k = "remover" /\ handlers[p]["dispose"][j].t = q
    /\ handlers[p]["dispose"][j].e = type /\ handlers[p]["dispose"][j].g = g

\* C30: removing one observed registration (by P.off(Q, type, h), by a one()
\* handler that fired, or by the disposal of Q) leaves the others alone: for
\* every handler an undisposed P still has on a target R, P still holds the
\* dispose remover of that registration.
C30_OtherRemoversStay ==
  \A r \in Comp, type \in ObsTypes :
    \A i \in At(r, type) :
      LET h == handlers[r][type][i]
      IN h.t = r /\ h.o \in Live => HasRemover(h.o, r, type, h.g)

\* the string the last step's controlText() returned
Returned == turn[1].ty

\* C25 as stated: controlText() returns the placeholder when no text was set,
\* and the localized form of the text that was set otherwise.
C25_ControlTextLocalized ==
  op.name = "controlText()" =>
    /\ ~threw
    /\ controlText_[op.c] = "" => Returned = "Need Text"
    /\ controlText_[op.c] # "" /\ player_[op.c] # NoComp =>
         Returned = localize(Cur, op.c, controlText_[op.c])

\* C25 amended: controlText(t) with a non-empty t keeps t itself and writes
\* the localized form of t to the text element; controlText() changes nothing
\* and returns the placeholder when no text was set and otherwise the text
\* that was set last, not localized.
C25_ControlTextReturnsSetText ==
  [][\A b \in Comp :
       /\ op' = Op("controlText()", b) =>
            /\ ~threw' /\ UNCHANGED program
            /\ Returned' = IF controlText_[b] = "" THEN "Need Text" ELSE controlText_[b]
       /\ \A x \in Texts :
            op' = Op("controlText", b) /\ turn'[1].ty = x =>
              /\ controlText_'[b] = x
              /\ ~threw' => controlTextEl_'[b] = localize(Cur, b, x)']_vars

\* C25 happens: with the language es-MX, whose dictionary lacks the text, the
\* element shows the translation of the primary language and controlText()
\* has just returned the text as it was set.
C25_Witness ==
  /\ op.name = "controlText()" /\ ~threw
  /\ language = "es-MX" /\ Returned = "Play"
  /\ controlTextEl_[op.c] = "Juego"
  /\ languages.dict["es-MX"].entry["Play"] = ""

\* the descendants of r: the components reached through children_ lists
Descendants(r) == Below(r, NComp)

\* C26: the child that parent.addChild(name) constructs has the parent's
\* player as its player, or the parent itself when the parent has no player;
\* and every descendant of a component that is its own player has that
\* component as its player.
C26_ChildPlayerIsRoot ==
  /\ [][\A p \in Comp, c \in Comp :
          op' = Op("addChild", p) /\ ~threw' /\ c \in made' \ made =>
            player_'[c] = IF player_[p] # NoComp THEN player_[p] ELSE p]_vars
  /\ [](\A r \in made : player_[r] = r => \A d \in Descendants(r) : player_[d] = r)

\* C26 happens: a grandchild of the player was added by name to a child of the
\* player, and its player is the player, not its parent.
C26_Witness ==
  \E r \in Live, c \in Live, d \in Live :
    /\ player_[r] = r /\ c # r /\ d # c /\ d # r
    /\ op = Op("addChild", c) /\ ~threw
    /\ children_[r] = <<c>> /\ children_[c] = <<d>>
    /\ player_[d] = r /\ player_[c] = r

\* C27: once the tap candidate has been cancelled (a touchleave, a
\* touchcancel, a touchmove with more than one contact, or a touchmove farther
\* than 10 from the start point, since the last touchstart with exactly one
\* contact), a touchend emits no tap.
C27_CancelledStaysCancelled ==
  op.name = "touchend" /\ touch.cancelled => Taps = 0

\* the listeners bound to a among the listeners of type t on x, in order
OwnedOn(a, x, t) == SelectSeq(handlers[x][t], LAMBDA h : h.o = a)

\* C28: c.dispose() calls no dispose listener of a component outside the tree
\* below c and emits no event on it; the timers of such a component (an
\* ancestor of c in particular) keep their state, and the listeners it has on
\* other components outside that tree stay attached.
C28_DisposeDoesNotBubble ==
  [][\A c \in Comp :
       op' = Op("dispose", c) =>
         \A a \in Comp \ ({c} \cup Descendants(c)) :
           /\ \A i \in DOMAIN snaps' : snaps'[i].c # a
           /\ \A i \in DOMAIN turn' : turn'[i].e = "emit" => turn'[i].c # a
           /\ \A id \in DOMAIN timers : timers[id].owner = a => timers'[id] = timers[id]
           /\ \A x \in Comp \ ({a, c} \cup Descendants(c)), t \in UserTypes :
                OwnedOn(a, x, t)' = OwnedOn(a, x, t)]_vars

\* the pending touch-hold intervals of c, and the activity reports of the
\* last step that came from c
PendingHold(c) ==
  {id \in DOMAIN timers :
     timers[id].owner = c /\ timers[id].cb = "report" /\ timers[id].st = "pending"}
Reports(c) == Cardinality({i \in DOMAIN turn : turn[i].e = "report" /\ turn[i].c = c})

\* C29: a touchstart, touchmove, touchend or touchcancel on a component that
\* reports touch activity produces one immediate report; the component has at
\* most one touch-hold interval pending, and has one only between a touchstart
\* and the next touchend or touchcancel; a periodic report comes only in that
\* span and only from a component whose dispose() has not returned.
C29_TouchActivityReports ==
  /\ op.name \in {"touchstart", "touchmove", "touchend", "touchcancel"} /\ ~threw
       => Reports(op.c) = 1
  /\ \A c \in Comp :
       /\ Cardinality(PendingHold(c)) <= 1
       /\ PendingHold(c) # {} => c = touch.target /\ touch.held
  /\ op.name = "fire:report" =>
       /\ op.c = touch.target /\ touch.held
       /\ ~Disposed(op.c)

\* the listeners p has attached to other components, as (target, type, position)
ObservedBy(p) ==
  {x \in Comp \X AllTypes \X (1..MaxListeners) :
     /\ x[1] # p /\ x[3] \in DOMAIN handlers[x[1]][x[2]]
     /\ handlers[x[1]][x[2]][x[3]].o = p /\ handlers[x[1]][x[2]][x[3]].t = x[1]}
PendingOf(p) == {id \in DOMAIN timers : timers[id].owner = p /\ timers[id].st = "pending"}

\* C31: a P.dispose() that returns cancels every pending timer of P and removes
\* every handler P registered on other targets, also when P.off() or
\* P.off('dispose') was called on the live P before.
C31_OffKeepsCleanup ==
  [][\A p \in Comp :
       op' = Op("dispose", p) /\ ~threw' =>
         PendingOf(p)' = {} /\ ObservedBy(p)' = {}]_vars

\* the components p holds in its child list and in its two indexes
HeldBy(p) ==
  {children_[p][i] : i \in DOMAIN children_[p]}
    \cup {childIndex_[p][k] : k \in DOMAIN childIndex_[p]}
    \cup {childNameIndex_[p][n] : n \in DOMAIN childNameIndex_[p]}

\* C32: no component whose dispose() has not returned holds a disposed
\* component in its child list or in its indexes, and dispose() asks no
\* component that is already disposed to dispose itself again.
C32_NoDisposedChild ==
  [][/\ \A p \in made' : ~Disposed(p)' => \A c \in HeldBy(p)' \cap Comp : ~Disposed(c)'
     /\ \A i \in DOMAIN turn' : turn'[i].e = "disposeChild" => ~Disposed(turn'[i].o)]_vars

\* the children of p, as a set
Kids(p) == {children_[p][i] : i \in DOMAIN children_[p]}

\* C33: dispose() of a component that has no element does not raise, and
\* dispose() of a component with an element that has such a child (and no
\* disposed child) does not raise, disposes the other children, empties the
\* containers and leaves the component without listeners and without element.
C33_DisposeWithoutElement ==
  [][\A c \in made :
       op' = Op("dispose", c) =>
         /\ c \in Bare => ~threw'
         /\ (/\ c \in Live
             /\ Kids(c) \cap Bare # {}
             /\ \A k \in Kids(c) : ~Disposed(k)) =>
               /\ ~threw'
               /\ \A k \in Kids(c) \ Bare : Disposed(k)'
               /\ childrenNull'[c]
               /\ handlers'[c] = NoHandlers
               /\ Disposed(c)']_vars

\* C34: a disposed button has no keydown listener on the document, and no
\* keydown calls the handleClick of a disposed button.
C34_DisposedButtonHearsNoKeys ==
  \A b \in made :
    Disposed(b) =>
      /\ KeyListeners(b) = {}
      /\ op.name = "keydown" => HandleClicks(b) = 0

\* C35: the touchends since the last touchstart with exactly one contact have
\* emitted at most one tap.
C35_OneTapPerTouchStart ==
  touch.taps <= 1

\* the ready() calls made so far: the callbacks passed by callers, and the
\* callbacks passed by callbacks that have run
Passed == {r \in DOMAIN regs : \A q \in DOMAIN regs : regs[q].then = r => regs[q].n > 0}

DrainEmitted(c) ==
  /\ op = Op("fire:drain", c)
  /\ \E i \in DOMAIN turn : IsReadyEmit(i) /\ turn[i].c = c

\* a drain that triggerReady() scheduled on c has not run yet
PendingDrain(c) ==
  \E id \in DOMAIN timers :
    timers[id].cb = "drain" /\ timers[id].owner = c /\ timers[id].st = "pending"

\* nothing is owed: every callback passed to ready() of a component on which
\* triggerReady() was called has run and every drain has run, except on
\* components on which dispose() was called
Settled ==
  /\ \A r \in Passed :
       isReady_[regs[r].c] => regs[r].n >= 1 \/ regs[r].c \in disposeCalls
  /\ \A c \in made : PendingDrain(c) => c \in disposeCalls

====
